---------------------------- MODULE Spec2Model ----------------------------
(***************************************************************************)
(* Model of the ledger-normalisation engine of pd_bot: Card51Parser        *)
(* (core/parser_51.py) and the retry wrapper ErrorHandler                  *)
(* (infra/error_handler.py).                                               *)
(*                                                                         *)
(* Representation                                                          *)
(*   str            a sequence of Unicode code points ("51" = <<53, 49>>)  *)
(*   Optional[T]    <<>> for None, <<v>> for a value v                     *)
(*   float          an IEEE-754 binary64 number [neg, m, e], see below     *)
(*   datetime.date  <<year, month, day>>                                   *)
(*   dict           a function; the order of its keys is computed where    *)
(*                  the code reads it (DailyOrder)                         *)
(***************************************************************************)
EXTENDS Integers, Sequences, FiniteSets, TLC

(***************************************************************************)
(* Bounds of the model.                                                    *)
(***************************************************************************)
\* the amounts of the payloads have this many decimal places
FracDigits == 2
\* largest number of lines of a raw-text payload
MaxLines == 2
\* largest number of rows of a grid payload, the header row included
MaxRows == 3
\* largest retries value of a directly constructed ErrorHandler
MaxRetries == 3
\* largest number of calls of parse on one parser
MaxCalls == 3
\* longest header list and largest column count given to _make_unique_headers
MaxHeaders == 3
MaxCols == 4

(***************************************************************************)
(* Python values.                                                          *)
(***************************************************************************)
None == <<>>
Some(v) == <<v>>
IsNone(o) == o = <<>>
Val(o) == o[1]

Min2(a, b) == IF a < b THEN a ELSE b
Max2(a, b) == IF a < b THEN b ELSE a

RECURSIVE Pow10(_)
Pow10(n) == IF n = 0 THEN 1 ELSE 10 * Pow10(n - 1)

\* 10^FracDigits: the payloads write their amounts as whole numbers of
\* 10^-FracDigits
Unit == Pow10(FracDigits)

(***************************************************************************)
(* Python floats.  A float is an IEEE-754 binary64 number, kept as         *)
(* [neg, m, e] for the value (-1)^neg * m * 2^e: m is a natural number of  *)
(* exactly 53 bits, or 0 with e = 0 for the two zeros.  Naturals of that   *)
(* size are sequences of limbs of LimbBits bits, the least significant     *)
(* first, without leading zero limbs.  Every operation gives the float     *)
(* nearest to the exact result, ties to the even significand, as the       *)
(* hardware does; infinities, NaN and subnormal numbers are out of reach   *)
(* of the amounts of a ledger and are left out.                            *)
(***************************************************************************)
LimbBits == 24
Limb == 2 ^ LimbBits
\* the significand of a binary64 number
Mantissa == 53

\* the greatest element of a non-empty set of integers
MaxOf(S) == CHOOSE x \in S : \A y \in S : y <= x

\* the limb sequence without its leading zero limbs
BTrim(a) ==
    LET nz == {i \in 1..Len(a) : a[i] # 0}
    IN  IF nz = {} THEN <<>> ELSE SubSeq(a, 1, MaxOf(nz))
\* limb i of a, 0 beyond its length
BLimb(a, i) == IF i >= 1 /\ i <= Len(a) THEN a[i] ELSE 0
\* the natural number n < 2^31 as limbs
BFromNat(n) == BTrim(<<n % Limb, n \div Limb>>)
\* number of bits of a
BBitLen(a) ==
    IF a = <<>> THEN 0
    ELSE (Len(a) - 1) * LimbBits
            + (CHOOSE k \in 1..LimbBits : 2 ^ (k - 1) <= a[Len(a)] /\ a[Len(a)] < 2 ^ k)
\* bit k of a, the least bit being bit 0
BBit(a, k) == (BLimb(a, (k \div LimbBits) + 1) \div (2 ^ (k % LimbBits))) % 2
\* some bit of a below bit k is set
BLowNonzero(a, k) ==
    /\ k > 0
    /\ \/ \E i \in 1..Len(a) : i <= k \div LimbBits /\ a[i] # 0
       \/ BLimb(a, (k \div LimbBits) + 1) % (2 ^ (k % LimbBits)) # 0
\* a * 2^k
BShl(a, k) ==
    LET q == k \div LimbBits
        r == k % LimbBits
    IN  BTrim([i \in 1..(Len(a) + q + 1) |->
                 IF i <= q THEN 0
                 ELSE (BLimb(a, i - q) % (2 ^ (LimbBits - r))) * (2 ^ r)
                        + (BLimb(a, i - q - 1) \div (2 ^ (LimbBits - r)))])
\* a // 2^k
BShr(a, k) ==
    LET q == k \div LimbBits
        r == k % LimbBits
    IN  BTrim([i \in 1..(Len(a) - q) |->
                 (BLimb(a, i + q) \div (2 ^ r))
                    + (BLimb(a, i + q + 1) % (2 ^ r)) * (2 ^ (LimbBits - r))])
\* -1, 0, 1 as a < b, a = b, a > b
BCmp(a, b) ==
    IF Len(a) # Len(b) THEN (IF Len(a) < Len(b) THEN -1 ELSE 1)
    ELSE LET D == {i \in 1..Len(a) : a[i] # b[i]}
         IN  IF D = {} THEN 0
             ELSE IF a[MaxOf(D)] < b[MaxOf(D)] THEN -1 ELSE 1

RECURSIVE BAddFrom(_, _, _, _)
BAddFrom(a, b, i, c) ==
    IF i > Len(a) /\ i > Len(b) THEN (IF c = 0 THEN <<>> ELSE <<c>>)
    ELSE <<(BLimb(a, i) + BLimb(b, i) + c) % Limb>>
            \o BAddFrom(a, b, i + 1, (BLimb(a, i) + BLimb(b, i) + c) \div Limb)
\* a + b
BAdd(a, b) == BAddFrom(a, b, 1, 0)

RECURSIVE BSubFrom(_, _, _, _)
BSubFrom(a, b, i, c) ==
    IF i > Len(a) THEN <<>>
    ELSE LET s == BLimb(a, i) - BLimb(b, i) - c
         IN  <<IF s < 0 THEN s + Limb ELSE s>>
                \o BSubFrom(a, b, i + 1, IF s < 0 THEN 1 ELSE 0)
\* a - b for a >= b
BSub(a, b) == BTrim(BSubFrom(a, b, 1, 0))

RECURSIVE BMulFrom(_, _, _, _)
BMulFrom(a, c, i, carry) ==
    IF i > Len(a) THEN (IF carry = 0 THEN <<>> ELSE <<carry>>)
    ELSE <<(a[i] * c + carry) % Limb>>
            \o BMulFrom(a, c, i + 1, (a[i] * c + carry) \div Limb)
\* a * c for a small factor 0 <= c < 128
BMulSmall(a, c) == BTrim(BMulFrom(a, c, 1, 0))

RECURSIVE BDivFrom(_, _, _, _)
BDivFrom(a, s, i, rem) ==
    IF i = 0 THEN [q |-> <<>>, r |-> rem]
    ELSE LET rest == BDivFrom(a, s, i - 1, (rem * Limb + a[i]) % s)
         IN  [q |-> Append(rest.q, (rem * Limb + a[i]) \div s), r |-> rest.r]
\* quotient and remainder of a by a small divisor 0 < s < 128
BDivSmall(a, s) ==
    [q |-> BTrim(BDivFrom(a, s, Len(a), 0).q), r |-> BDivFrom(a, s, Len(a), 0).r]

RECURSIVE BFromDigitsFrom(_, _, _)
\* acc * 10^k + int(the last k digits of ds), for k == Len(ds) - i + 1
BFromDigitsFrom(ds, i, acc) ==
    IF i > Len(ds) THEN acc
    ELSE IF acc = <<>> THEN BFromDigitsFrom(ds, i + 1, BFromNat(ds[i] - 48))
    ELSE BFromDigitsFrom(ds, i + 1, BAdd(BMulSmall(acc, 10), BFromNat(ds[i] - 48)))
\* int(ds) for a sequence ds of decimal digit characters
BFromDigits(ds) == BFromDigitsFrom(ds, 1, <<>>)

\* 0.0 and -0.0
FZero == [neg |-> FALSE, m |-> <<>>, e |-> 0]
FNegZero == [neg |-> TRUE, m |-> <<>>, e |-> 0]
\* x == 0, the test behind "if x" and "x or 0"
FIsZero(x) == x.m = <<>>

\* the float nearest to (-1)^neg * S * 2^e for a natural S, ties to even
RoundNorm(neg, S, e) ==
    LET L == BBitLen(S)
        k == L - Mantissa
        q == BShr(S, k)
        up == BBit(S, k - 1) = 1 /\ (BLowNonzero(S, k - 1) \/ BBit(q, 0) = 1)
        q1 == IF up THEN BAdd(q, <<1>>) ELSE q
    IN  IF L = 0 THEN [neg |-> neg, m |-> <<>>, e |-> 0]
        ELSE IF L <= Mantissa THEN [neg |-> neg, m |-> BShl(S, Mantissa - L), e |-> e - (Mantissa - L)]
        ELSE IF BBitLen(q1) > Mantissa THEN [neg |-> neg, m |-> BShr(q1, 1), e |-> e + k + 1]
        ELSE [neg |-> neg, m |-> q1, e |-> e + k]

\* -x
FNeg(x) == [x EXCEPT !.neg = ~x.neg]

\* x + y
FAdd(x, y) ==
    IF FIsZero(x) /\ FIsZero(y) THEN (IF x.neg /\ y.neg THEN FNegZero ELSE FZero)
    ELSE IF FIsZero(x) THEN y
    ELSE IF FIsZero(y) THEN x
    ELSE LET e == Min2(x.e, y.e)
             X == BShl(x.m, x.e - e)
             Y == BShl(y.m, y.e - e)
             c == BCmp(X, Y)
         IN  IF x.neg = y.neg THEN RoundNorm(x.neg, BAdd(X, Y), e)
             ELSE IF c = 0 THEN FZero
             ELSE IF c > 0 THEN RoundNorm(x.neg, BSub(X, Y), e)
             ELSE RoundNorm(y.neg, BSub(Y, X), e)
\* x - y
FSub(x, y) == FAdd(x, FNeg(y))

\* x < y
FLess(x, y) ==
    IF FIsZero(x) /\ FIsZero(y) THEN FALSE
    ELSE IF FIsZero(x) THEN ~y.neg
    ELSE IF FIsZero(y) THEN x.neg
    ELSE IF x.neg # y.neg THEN x.neg
    ELSE LET e == Min2(x.e, y.e)
             c == BCmp(BShl(x.m, x.e - e), BShl(y.m, y.e - e))
         IN  IF x.neg THEN c > 0 ELSE c < 0
\* x == y
FEq(x, y) == ~FLess(x, y) /\ ~FLess(y, x)

\* the multiples 0 .. 15 of the divisor
HexMultiples(D) == [c \in 0..15 |-> BMulSmall(D, c)]
\* the hexadecimal digit r // D of a remainder r < 16 * D
HexDigit(r, mult) == MaxOf({c \in 0..15 : BCmp(mult[c], r) <= 0})
RECURSIVE LongDivision(_, _, _)
\* the next n hexadecimal digits of the quotient that has the remainder r,
\* and after them 1 when the division leaves a rest, else 0
LongDivision(r, mult, n) ==
    IF n = 0 THEN <<IF r = <<>> THEN 0 ELSE 1>>
    ELSE LET d == HexDigit(BShl(r, 4), mult)
         IN  <<d>> \o LongDivision(BSub(BShl(r, 4), mult[d]), mult, n - 1)
\* the natural number of the hexadecimal digits ds, the most significant first
BFromHex(ds) ==
    BTrim([i \in 1..((Len(ds) + 5) \div 6) |->
             LET At16(w) == IF w < Len(ds) THEN ds[Len(ds) - w] ELSE 0
                 lo == 6 * (i - 1)
             IN  At16(lo) + 16 * At16(lo + 1) + 256 * At16(lo + 2) + 4096 * At16(lo + 3)
                    + 65536 * At16(lo + 4) + 1048576 * At16(lo + 5)])
\* the digits of the quotient of the significands: one before the point and
\* QuotientDigits after it, enough for Mantissa bits and the bit that rounds
QuotientDigits == (Mantissa + 3) \div 4
\* x / y for y # 0: the quotient of the significands to 56 binary places,
\* one more bit for the rest of the division, then rounded
FDiv(x, y) ==
    IF FIsZero(x) THEN (IF x.neg # y.neg THEN FNegZero ELSE FZero)
    ELSE LET mult == HexMultiples(y.m)
             d0 == HexDigit(x.m, mult)
             ds == <<d0>> \o LongDivision(BSub(x.m, mult[d0]), mult, QuotientDigits)
         IN  RoundNorm(x.neg # y.neg,
                       BAdd(BShl(BFromHex(SubSeq(ds, 1, QuotientDigits + 1)), 1),
                            BFromNat(ds[QuotientDigits + 2])),
                       x.e - y.e - 4 * QuotientDigits - 1)

RECURSIVE DivPow10(_, _, _)
\* a // 10^d, and whether the division leaves a rest (st says it already did)
DivPow10(a, st, d) ==
    IF d = 0 \/ a = <<>> THEN [q |-> a, sticky |-> st]
    ELSE DivPow10(BDivSmall(a, 10).q, st \/ BDivSmall(a, 10).r # 0, d - 1)
\* float of the decimal number (-1)^neg * n / 10^d for a natural n
DecToFloat(neg, n, d) ==
    LET sh == 64 + 4 * d
        qs == DivPow10(BShl(n, sh), FALSE, d)
    IN  RoundNorm(neg, BAdd(BShl(qs.q, 1), IF qs.sticky THEN <<1>> ELSE <<>>), -(sh + 1))
\* float(n) for an int n
FromInt(n) == RoundNorm(n < 0, BFromNat(IF n < 0 THEN -n ELSE n), 0)
\* the float written as the decimal number v / 10^FracDigits
Amount(v) == DecToFloat(v < 0, BFromNat(IF v < 0 THEN -v ELSE v), FracDigits)

(***************************************************************************)
(* Characters: the classes the regular expressions and str methods of the  *)
(* source use, restricted to ASCII, U+00A0, U+00AB, U+00BB and the Russian *)
(* alphabet.                                                               *)
(***************************************************************************)
IsDigit(c) == c >= 48 /\ c <= 57
IsLatin(c) == (c >= 65 /\ c <= 90) \/ (c >= 97 /\ c <= 122)
IsCyrAYa(c) == c >= 1040 /\ c <= 1103
\* \w of the re module
IsWord(c) == IsDigit(c) \/ IsLatin(c) \/ IsCyrAYa(c) \/ c = 95 \/ c = 1025 \/ c = 1105
\* \s of the re module, str.isspace
IsSpace(c) == (c >= 9 /\ c <= 13) \/ (c >= 28 /\ c <= 32) \/ c = 133 \/ c = 160
\* str.lower on one character
LowerChar(c) ==
    IF (c >= 65 /\ c <= 90) \/ (c >= 1040 /\ c <= 1071) THEN c + 32
    ELSE IF c = 1025 THEN 1105
    ELSE c

Lower(s) == [i \in 1..Len(s) |-> LowerChar(s[i])]

\* the character of s at position p, 0 (no character) outside s
At(s, p) == IF p >= 1 /\ p <= Len(s) THEN s[p] ELSE 0

RECURSIVE LStripFrom(_, _)
LStripFrom(s, p) ==
    IF p <= Len(s) /\ IsSpace(s[p]) THEN LStripFrom(s, p + 1) ELSE p
RECURSIVE RStripFrom(_, _)
RStripFrom(s, p) ==
    IF p >= 1 /\ IsSpace(s[p]) THEN RStripFrom(s, p - 1) ELSE p
\* str.strip
Strip(s) == SubSeq(s, LStripFrom(s, 1), RStripFrom(s, Len(s)))

\* kw == s[p : p + len(kw)]
MatchAt(s, p, kw) ==
    /\ p + Len(kw) - 1 <= Len(s)
    /\ \A i \in 1..Len(kw) : s[p + i - 1] = kw[i]
\* kw in s
Contains(s, kw) == \E p \in 1..(Len(s) - Len(kw) + 1) : MatchAt(s, p, kw)

\* s[:n]
Prefix(s, n) == SubSeq(s, 1, Min2(Len(s), n))

RECURSIVE Join(_, _)
\* sep.join(parts)
Join(parts, sep) ==
    IF Len(parts) = 0 THEN <<>>
    ELSE IF Len(parts) = 1 THEN parts[1]
    ELSE parts[1] \o sep \o Join(Tail(parts), sep)

\* number of consecutive characters of class digit from position p
RECURSIVE DigitRun(_, _)
DigitRun(s, p) == IF IsDigit(At(s, p)) THEN 1 + DigitRun(s, p + 1) ELSE 0

RECURSIVE DigitsValue(_, _, _)
\* int(s[p : p + n]) for a run of digits
DigitsValue(s, p, n) ==
    IF n = 0 THEN 0
    ELSE 10 * DigitsValue(s, p, n - 1) + (s[p + n - 1] - 48)

RECURSIVE NatStr(_)
\* str(n) for an int n >= 0
NatStr(n) == IF n < 10 THEN <<48 + n>> ELSE NatStr(n \div 10) \o <<48 + (n % 10)>>

\* \b of the re module at the gap before position p
WordBoundary(s, p) == IsWord(At(s, p - 1)) # IsWord(At(s, p))

(***************************************************************************)
(* Grid cells.  A cell of a DataFrame is None, NaN, a float or a str; a    *)
(* float cell is kept as v, the number of 10^-FracDigits it is written     *)
(* with, and stands for the float of that decimal number.                  *)
(***************************************************************************)
NaNCell == [k |-> "nan", v |-> 0, s |-> <<>>]
NoneCell == [k |-> "none", v |-> 0, s |-> <<>>]
\* pd.isna(cell)
IsNa(cell) == cell.k \in {"nan", "none"}
NumCell(x) == [k |-> "num", v |-> x, s |-> <<>>]
StrCell(t) == [k |-> "str", v |-> 0, s |-> t]

RECURSIVE FracStr(_, _)
\* the n decimal places of the fraction f, without trailing zeros
FracStr(f, n) ==
    IF f = 0 \/ n = 0 THEN <<>>
    ELSE <<48 + (f \div Pow10(n - 1))>> \o FracStr(f % Pow10(n - 1), n - 1)

\* str(x) for the float x of a cell: the shortest decimal number that reads
\* back as x, which is the one the cell is written with
FloatStr(x) ==
    LET a == IF x < 0 THEN -x ELSE x
        fr == FracStr(a % Unit, FracDigits)
    IN  (IF x < 0 THEN <<45>> ELSE <<>>) \o NatStr(a \div Unit) \o <<46>>
            \o (IF fr = <<>> THEN <<48>> ELSE fr)

\* str(cell); str(float("nan")) is "nan", str(None) is "None"
CellStr(cell) ==
    IF cell.k = "str" THEN cell.s
    ELSE IF cell.k = "num" THEN FloatStr(cell.v)
    ELSE IF cell.k = "none" THEN <<78, 111, 110, 101>>
    ELSE <<110, 97, 110>>

\* Series.fillna("").astype(str) on one cell
FillnaStr(cell) == IF IsNa(cell) THEN <<>> ELSE CellStr(cell)

\* ---- NUM_RE = \(?-?\d{1,3}(?:[ \u00A0]\d{3})*(?:[.,]\d+)?\)? ----
\* NUM_RE can match at position p: \(?-?\d
NumStartOk(s, p) ==
    IF At(s, p) = 40
    THEN IsDigit(At(s, p + 1)) \/ (At(s, p + 1) = 45 /\ IsDigit(At(s, p + 2)))
    ELSE IF At(s, p) = 45 THEN IsDigit(At(s, p + 1))
    ELSE IsDigit(At(s, p))

\* the least position of the set ps, 0 when it is empty
FirstPos(ps) == IF ps = {} THEN 0 ELSE CHOOSE q \in ps : \A r \in ps : q <= r
\* start of the leftmost match of NUM_RE at or after p, 0 when there is none
NumSearchFrom(s, p) == FirstPos({q \in p..Len(s) : NumStartOk(s, q)})

RECURSIVE NumGroupsEnd(_, _)
\* (?:[ \u00A0]\d{3})* from position e, greedy
NumGroupsEnd(s, e) ==
    IF (At(s, e) = 32 \/ At(s, e) = 160) /\ DigitRun(s, e + 1) >= 3
    THEN NumGroupsEnd(s, e + 4)
    ELSE e

\* position after the match of NUM_RE that starts at p
NumMatchEnd(s, p) ==
    LET d  == p + (IF At(s, p) = 40 THEN 1 ELSE 0)
                + (IF At(s, p + (IF At(s, p) = 40 THEN 1 ELSE 0)) = 45 THEN 1 ELSE 0)
        e1 == d + Min2(DigitRun(s, d), 3)
        e2 == NumGroupsEnd(s, e1)
        e3 == IF (At(s, e2) = 46 \/ At(s, e2) = 44) /\ IsDigit(At(s, e2 + 1))
              THEN e2 + 1 + DigitRun(s, e2 + 1)
              ELSE e2
    IN  IF At(s, e3) = 41 THEN e3 + 1 ELSE e3

KeepNumChar(c) == c # 40 /\ c # 41 /\ c # 32 /\ c # 160
ReplaceNbsp(s) == [i \in 1..Len(s) |-> IF s[i] = 160 THEN 32 ELSE s[i]]

\* float(val) for val = -?digits(.digits)?, the decimal mark a point or a
\* comma (the caller has replaced the comma)
ParseFloat(val) ==
    LET st == IF At(val, 1) = 45 THEN 2 ELSE 1
        ni == DigitRun(val, st)
        nf == IF At(val, st + ni) = 46 \/ At(val, st + ni) = 44
              THEN DigitRun(val, st + ni + 1) ELSE 0
    IN  DecToFloat(st = 2,
                   BFromDigits(SubSeq(val, st, st + ni - 1)
                                 \o SubSeq(val, st + ni + 1, st + ni + nf)),
                   nf)

\* _num_to_float on a str
NumStrToFloat(t) ==
    LET s == ReplaceNbsp(Strip(t))
        p == NumSearchFrom(s, 1)
        m == SubSeq(s, p, NumMatchEnd(s, p) - 1)
        neg == m[1] = 40 /\ m[Len(m)] = 41
        x == ParseFloat(SelectSeq(m, KeepNumChar))
    IN  IF Strip(t) = <<>> \/ p = 0 THEN None
        ELSE Some(IF neg THEN FNeg(x) ELSE x)

\* _num_to_float on a cell
_num_to_float(cell) ==
    IF IsNa(cell) THEN None
    ELSE IF cell.k = "num" THEN Some(Amount(cell.v))
    ELSE NumStrToFloat(cell.s)

\* ---- Dates: DATE_RE = \b\d{2}\.\d{2}\.\d{4}\b and the calendar of datetime ----
DateMin == <<1, 1, 1>>

IsLeap(y) == y % 4 = 0 /\ (y % 100 # 0 \/ y % 400 = 0)
DaysInMonth(y, m) ==
    IF m = 2 THEN (IF IsLeap(y) THEN 29 ELSE 28)
    ELSE IF m \in {4, 6, 9, 11} THEN 30 ELSE 31
RECURSIVE DaysBeforeMonth(_, _)
DaysBeforeMonth(y, m) ==
    IF m = 1 THEN 0 ELSE DaysBeforeMonth(y, m - 1) + DaysInMonth(y, m - 1)
DaysBeforeYear(y) ==
    LET n == y - 1 IN n * 365 + (n \div 4) - (n \div 100) + (n \div 400)
\* date.toordinal
ToOrdinal(d) == DaysBeforeYear(d[1]) + DaysBeforeMonth(d[1], d[2]) + d[3]

IsoWeek1Monday(y) ==
    LET firstday == DaysBeforeYear(y) + 1
        firstweekday == (firstday + 6) % 7
        monday == firstday - firstweekday
    IN  IF firstweekday > 3 THEN monday + 7 ELSE monday

\* date.isocalendar()[0:2] as <<ISO year, ISO week>>
IsoCalendar(d) ==
    LET today == ToOrdinal(d)
        w0 == today - IsoWeek1Monday(d[1])
    IN  IF w0 < 0
        THEN <<d[1] - 1, ((today - IsoWeek1Monday(d[1] - 1)) \div 7) + 1>>
        ELSE IF w0 \div 7 >= 52 /\ today >= IsoWeek1Monday(d[1] + 1)
        THEN <<d[1] + 1, 1>>
        ELSE <<d[1], (w0 \div 7) + 1>>

DateLess(a, b) ==
    \/ a[1] < b[1]
    \/ a[1] = b[1] /\ a[2] < b[2]
    \/ a[1] = b[1] /\ a[2] = b[2] /\ a[3] < b[3]
DateLeq(a, b) == a = b \/ DateLess(a, b)

\* DATE_RE matches at position p
DateMatchAt(s, p) ==
    /\ WordBoundary(s, p)
    /\ IsDigit(At(s, p)) /\ IsDigit(At(s, p + 1)) /\ At(s, p + 2) = 46
    /\ IsDigit(At(s, p + 3)) /\ IsDigit(At(s, p + 4)) /\ At(s, p + 5) = 46
    /\ DigitRun(s, p + 6) >= 4
    /\ WordBoundary(s, p + 10)

\* start of the leftmost match of DATE_RE at or after p, 0 when there is none
DateSearchFrom(s, p) == FirstPos({q \in p..Len(s) : DateMatchAt(s, q)})

\* datetime.strptime(m, "%d.%m.%Y").date(), None when it raises
ParseDateStr(s) ==
    LET p == DateSearchFrom(s, 1)
        d == DigitsValue(s, p, 2)
        m == DigitsValue(s, p + 3, 2)
        y == DigitsValue(s, p + 6, 4)
    IN  IF p = 0 THEN None
        ELSE IF y >= 1 /\ m >= 1 /\ m <= 12 /\ d >= 1 /\ d <= DaysInMonth(y, m)
        THEN Some(<<y, m, d>>)
        ELSE None

\* _parse_date on a cell
_parse_date(cell) ==
    IF IsNa(cell) THEN None ELSE ParseDateStr(CellStr(cell))

(***************************************************************************)
(* Counterparty recovery.                                                  *)
(***************************************************************************)
\* "INN " in Cyrillic (U+0418 U+041D U+041D, space), the label of a taxpayer number
InnLabel == <<1048, 1053, 1053, 32>>
\* the alternatives (OOO|ZAO|AO|IP), in Cyrillic, in the order of the pattern
LegalPrefixes ==
    << <<1054, 1054, 1054>>, <<1047, 1040, 1054>>, <<1040, 1054>>, <<1048, 1055>> >>

\* length of the match of \b\d{10}\b|\b\d{12}\b at position p, 0 for none
InnMatchLen(s, p) ==
    IF WordBoundary(s, p) /\ DigitRun(s, p) >= 10 /\ WordBoundary(s, p + 10) THEN 10
    ELSE IF WordBoundary(s, p) /\ DigitRun(s, p) >= 12 /\ WordBoundary(s, p + 12) THEN 12
    ELSE 0

\* start of the leftmost taxpayer-number token at or after p, 0 for none
InnSearchFrom(s, p) == FirstPos({q \in p..Len(s) : InnMatchLen(s, q) > 0})

\* [A-Za-z U+0410-U+044F 0-9 " ' U+00AB U+00BB \- \s] under re.IGNORECASE
IsNameChar(c) ==
    IsLatin(c) \/ IsCyrAYa(c) \/ IsDigit(c) \/ IsSpace(c)
        \/ c = 34 \/ c = 39 \/ c = 171 \/ c = 187 \/ c = 45

RECURSIVE NameRun(_, _)
NameRun(s, p) == IF IsNameChar(At(s, p)) THEN 1 + NameRun(s, p + 1) ELSE 0

\* alternative k of the legal-entity pattern matches at p: the prefix, then
\* \s+ and {2,} name characters, which both draw on one run of name
\* characters that starts with white space and is at least 3 long
LegalAltAt(s, p, k) ==
    LET pre == LegalPrefixes[k]
    IN  /\ MatchAt(Lower(s), p, Lower(pre))
        /\ IsSpace(At(s, p + Len(pre)))
        /\ NameRun(s, p + Len(pre)) >= 3

\* position after the legal-entity match that starts at p, 0 for none
LegalMatchEnd(s, p) ==
    IF \E k \in 1..Len(LegalPrefixes) : LegalAltAt(s, p, k)
    THEN LET k == CHOOSE j \in 1..Len(LegalPrefixes) :
                    /\ LegalAltAt(s, p, j)
                    /\ \A i \in 1..(j - 1) : ~LegalAltAt(s, p, i)
         IN  p + Len(LegalPrefixes[k]) + NameRun(s, p + Len(LegalPrefixes[k]))
    ELSE 0

LegalSearchFrom(s, p) == FirstPos({q \in p..Len(s) : LegalMatchEnd(s, q) > 0})

\* the taxpayer-number strategy: the label and the digits or None
InnStrategy(t) ==
    LET p == InnSearchFrom(t, 1)
    IN  IF p = 0 THEN None
        ELSE Some(InnLabel \o SubSeq(t, p, p + InnMatchLen(t, p) - 1))

\* the legal-entity strategy: the matched span, stripped, or None
LegalStrategy(t) ==
    LET p == LegalSearchFrom(t, 1)
    IN  IF p = 0 THEN None
        ELSE Some(Strip(SubSeq(t, p, LegalMatchEnd(t, p) - 1)))

_extract_counterparty_free(t) ==
    IF ~IsNone(InnStrategy(t)) THEN InnStrategy(t)
    ELSE IF ~IsNone(LegalStrategy(t)) THEN LegalStrategy(t)
    ELSE None

_normalize_counterparty(t) ==
    IF Strip(t) = <<>> THEN None ELSE Some(Strip(t))

(***************************************************************************)
(* Card51Parser: from the payload to the header-resolved grid.             *)
(* A payload is raw text or a grid of cells; a DataFrame is its column     *)
(* names and its rows.                                                     *)
(***************************************************************************)
TextPayload(t) == [kind |-> "text", text |-> t, ncols |-> 1, rows |-> <<>>]
GridPayload(n, r) == [kind |-> "grid", text |-> <<>>, ncols |-> n, rows |-> r]

\* the column name "raw"
RawName == <<114, 97, 119>>
\* the line boundaries of str.splitlines
IsLineBreak(c) ==
    (c >= 10 /\ c <= 13) \/ (c >= 28 /\ c <= 30) \/ c = 133 \/ c = 8232 \/ c = 8233

RECURSIVE LineEnd(_, _)
\* first line boundary of s at or after p, Len(s) + 1 when there is none
LineEnd(s, p) ==
    IF p > Len(s) \/ IsLineBreak(s[p]) THEN p ELSE LineEnd(s, p + 1)

RECURSIVE StrippedLines(_, _)
\* [l.strip() for l in s[p - 1:].splitlines() if l.strip()]
StrippedLines(s, p) ==
    IF p > Len(s) THEN <<>>
    ELSE LET e == LineEnd(s, p)
             l == Strip(SubSeq(s, p, e - 1))
         IN  (IF l = <<>> THEN <<>> ELSE <<l>>) \o StrippedLines(s, e + 1)

_to_dataframe(raw) ==
    IF raw.kind = "grid"
    THEN [columns |-> [j \in 1..raw.ncols |-> NatStr(j - 1)], rows |-> raw.rows]
    ELSE LET lines == StrippedLines(raw.text, 1)
         IN  [columns |-> <<RawName>>,
              rows |-> [i \in 1..Len(lines) |-> <<StrCell(lines[i])>>]]

\* "data", "kontrag", "debet", "kredit", "ostat", "naznach", "opis" in Cyrillic
HeaderKeywords ==
    << <<1076, 1072, 1090, 1072>>,
       <<1082, 1086, 1085, 1090, 1088, 1072, 1075>>,
       <<1076, 1077, 1073, 1077, 1090>>,
       <<1082, 1088, 1077, 1076, 1080, 1090>>,
       <<1086, 1089, 1090, 1072, 1090>>,
       <<1085, 1072, 1079, 1085, 1072, 1095>>,
       <<1086, 1087, 1080, 1089>> >>
\* the keyword lists of _infer_roles
KwDate == << <<1076, 1072, 1090, 1072>> >>
KwDebit == << <<1076, 1077, 1073, 1077, 1090>>, <<1076, 1090>> >>
KwCredit == << <<1082, 1088, 1077, 1076, 1080, 1090>>, <<1082, 1090>> >>
KwBalance == << <<1086, 1089, 1090, 1072, 1090>>, <<1089, 1072, 1083, 1100, 1076, 1086>> >>
KwCounterparty ==
    << <<1082, 1086, 1085, 1090, 1088, 1072, 1075>>,
       <<1087, 1083, 1072, 1090, 1077, 1083, 1100>>,
       <<1087, 1086, 1083, 1091, 1095, 1072, 1090>>,
       <<1073, 1072, 1085, 1082>>,
       <<1082, 1083, 1080, 1077, 1085, 1090>> >>
KwDescription ==
    << <<1085, 1072, 1079, 1085, 1072, 1095>>,
       <<1086, 1087, 1080, 1089>>,
       <<1082, 1086, 1084, 1084, 1077, 1085, 1090>>,
       <<1086, 1089, 1085, 1086, 1074, 1072, 1085>> >>
\* the keywords of _guess_balance_col that exclude a column: "dt", "kt", "debet", "kredit" in Cyrillic
KwNotBalance ==
    << <<1076, 1090>>, <<1082, 1090>>, <<1076, 1077, 1073, 1077, 1090>>,
       <<1082, 1088, 1077, 1076, 1080, 1090>> >>
\* the keywords of _guess_counterparty_col; the last is "inn" in Cyrillic
KwGuessCounterparty ==
    << <<1082, 1086, 1085, 1090, 1088, 1072, 1075>>,
       <<1087, 1083, 1072, 1090, 1077, 1083, 1100>>,
       <<1087, 1086, 1083, 1091, 1095, 1072, 1090>>,
       <<1082, 1083, 1080, 1077, 1085, 1090>>,
       <<1073, 1072, 1085, 1082>>,
       <<1080, 1085, 1085>> >>
\* the keywords of _guess_description_col; the last is "naznachenie platezha" in Cyrillic
KwGuessDescription ==
    << <<1085, 1072, 1079, 1085, 1072, 1095>>,
       <<1086, 1087, 1080, 1089>>,
       <<1086, 1089, 1085, 1086, 1074, 1072, 1085>>,
       <<1085, 1072, 1079, 1085, 1072, 1095, 1077, 1085, 1080, 1077, 32,
         1087, 1083, 1072, 1090, 1077, 1078, 1072>> >>

\* any(k in t for k in kws)
ContainsAny(t, kws) == \E k \in 1..Len(kws) : Contains(t, kws[k])

\* " ".join(row.fillna("").astype(str)).lower()
RowText(row) == Lower(Join([j \in 1..Len(row) |-> FillnaStr(row[j])], <<32>>))
HeaderHits(row) ==
    Cardinality({k \in 1..Len(HeaderKeywords) : Contains(RowText(row), HeaderKeywords[k])})

\* rows scanned for a header, rows sampled by the content fallbacks
HeaderScanRows == 10
SampleRows == 200
\* characters of a description that are kept, transactions scanned for the opening balance
DescriptionLimit == 500
OpeningScanRows == 5
\* counterparties listed in a ranking
TopK == 5

\* header_row_idx, 1-based; 0 for None
\* the header search over every row of the frame
HeaderRowIdxAnyRow(rows) ==
    LET cand == {i \in 1..Len(rows) : HeaderHits(rows[i]) >= 2}
    IN  IF cand = {} THEN 0 ELSE CHOOSE i \in cand : \A j \in cand : i <= j

HeaderRowIdx(rows) ==
    LET cand == {i \in 1..Min2(HeaderScanRows, Len(rows)) : HeaderHits(rows[i]) >= 2}
    IN  IF cand = {} THEN 0 ELSE CHOOSE i \in cand : \A j \in cand : i <= j

\* f"col_{i}"
ColName(i) == <<99, 111, 108, 95>> \o NatStr(i)

RECURSIVE MakeUniqueFrom(_, _, _, _, _)
\* the loop of _make_unique_headers from index i (0-based), seen a dict
MakeUniqueFrom(headers, n, i, res, seen) ==
    IF i >= n THEN res
    ELSE LET base == IF i < Len(headers) THEN headers[i + 1] ELSE ColName(i)
             name == IF base = <<>> THEN ColName(i) ELSE base
         IN  IF name \in DOMAIN seen
             THEN MakeUniqueFrom(headers, n, i + 1,
                      Append(res, name \o <<95>> \o NatStr(seen[name] + 1)),
                      [seen EXCEPT ![name] = @ + 1])
             ELSE MakeUniqueFrom(headers, n, i + 1, Append(res, name),
                      (name :> 0) @@ seen)

_make_unique_headers(headers, n) ==
    MakeUniqueFrom(headers, n, 0, <<>>, [x \in {} |-> 0])

\* first index of x in the list l (list.index)
IndexOf(l, x) == CHOOSE i \in 1..Len(l) : l[i] = x /\ \A j \in 1..(i - 1) : l[j] # x

\* find with the loops exchanged: the columns outside, the keywords inside
FindRoleLeftmost(cols, one_of, k) ==
    LET hit == {j \in 1..Len(cols) :
                   \E n \in k..Len(one_of) : Contains(Lower(cols[j]), one_of[n])}
    IN  IF hit = {} THEN None
        ELSE Some(cols[CHOOSE j \in hit : \A i \in hit : j <= i])

RECURSIVE FindRole(_, _, _)
\* find(one_of) of _infer_roles, from keyword k on
FindRole(cols, one_of, k) ==
    IF k > Len(one_of) THEN None
    ELSE LET low == [j \in 1..Len(cols) |-> Lower(cols[j])]
             hit == {j \in 1..Len(cols) : Contains(low[j], one_of[k])}
         IN  IF hit = {} THEN FindRole(cols, one_of, k + 1)
             ELSE Some(cols[IndexOf(low, low[CHOOSE j \in hit : \A i \in hit : j <= i])])

_infer_roles(cols) ==
    [date |-> FindRole(cols, KwDate, 1),
     debit |-> FindRole(cols, KwDebit, 1),
     credit |-> FindRole(cols, KwCredit, 1),
     balance |-> FindRole(cols, KwBalance, 1),
     counterparty |-> FindRole(cols, KwCounterparty, 1),
     description |-> FindRole(cols, KwDescription, 1)]

\* the cells of column j of the sample as str: sample[c].astype(str) after fillna("")
\* number of cells of column j that DATE_RE matches
DateHits(sample, j) ==
    Cardinality({i \in 1..Len(sample) : DateSearchFrom(FillnaStr(sample[i][j]), 1) > 0})
\* number of cells of column j that NUM_RE matches
NumHits(sample, j) ==
    Cardinality({i \in 1..Len(sample) :
        NumSearchFrom(ReplaceNbsp(FillnaStr(sample[i][j])), 1) > 0})

\* the first index of js (a set of column indices) that maximises score
FirstMax(js, score) ==
    CHOOSE j \in js : \A i \in js : score[i] < score[j] \/ (score[i] = score[j] /\ j <= i)

\* the positions of the columns labelled c
Labelled(cols, c) == {j \in 1..Len(cols) : cols[j] = c}
\* sample[cols[j]] is a DataFrame, not a Series: the label is repeated
Repeated(cols, j) == Cardinality(Labelled(cols, cols[j])) > 1

\* _guess_date_col: [raised, col]; sample[c].astype(str).str raises
\* AttributeError for a repeated label
_guess_date_col(cols, sample) ==
    LET js == 1..Len(cols)
        hits == [j \in js |-> DateHits(sample, j)]
    IN  IF \E j \in js : Repeated(cols, j) THEN [raised |-> TRUE, col |-> None]
        ELSE IF js = {} THEN [raised |-> FALSE, col |-> None]
        ELSE [raised |-> FALSE,
              col |-> IF hits[FirstMax(js, hits)] > 0
                      THEN Some(cols[FirstMax(js, hits)]) ELSE None]

\* _guess_amount_cols: for a repeated label the lambda of apply is given a
\* Series and NUM_RE.search raises TypeError; with a candidate column the
\* generator of ccol iterates over the bool ([prefer[1], "kt"] and c != dcol)
\* and raises TypeError; else both columns are None
_guess_amount_cols(cols, sample) ==
    LET cand == {j \in 1..Len(cols) : NumHits(sample, j) > 0}
    IN  [raised |-> cand # {} \/ (\E j \in 1..Len(cols) : Repeated(cols, j)),
         dcol |-> None, ccol |-> None]

\* _guess_balance_col: [raised, col]; the first column with a balance name,
\* else the content loop, which raises TypeError on a repeated label it does
\* not skip
_guess_balance_col(cols, sample) ==
    LET named == {j \in 1..Len(cols) : ContainsAny(Lower(cols[j]), KwBalance)}
        scanned == {j \in 1..Len(cols) : ~ContainsAny(Lower(cols[j]), KwNotBalance)}
        cand == {j \in scanned : NumHits(sample, j) > 0}
        sc == [j \in cand |-> NumHits(sample, j)]
    IN  IF named # {}
        THEN [raised |-> FALSE,
              col |-> Some(cols[CHOOSE j \in named : \A i \in named : j <= i])]
        ELSE IF \E j \in scanned : Repeated(cols, j) THEN [raised |-> TRUE, col |-> None]
        ELSE IF cand # {} THEN [raised |-> FALSE, col |-> Some(cols[FirstMax(cand, sc)])]
        ELSE [raised |-> FALSE, col |-> None]

_guess_counterparty_col(cols) ==
    LET hit == {j \in 1..Len(cols) : ContainsAny(Lower(cols[j]), KwGuessCounterparty)}
    IN  IF hit = {} THEN None ELSE Some(cols[CHOOSE j \in hit : \A i \in hit : j <= i])

_guess_description_col(cols, exclude) ==
    LET hit == {j \in 1..Len(cols) :
                    /\ Some(cols[j]) # exclude
                    /\ ContainsAny(Lower(cols[j]), KwGuessDescription)}
    IN  IF hit = {} THEN None ELSE Some(cols[CHOOSE j \in hit : \A i \in hit : j <= i])

\* the role map of single-column input
RawColmap ==
    [date |-> None, debit |-> None, credit |-> None, balance |-> None,
     counterparty |-> None, description |-> Some(RawName)]
EmptyFrame == [columns |-> <<>>, rows |-> <<>>]

\* the outcome of _normalize_and_map_columns: [raised, df, colmap]; raised
\* stands for the IndexError of df.iloc[0] on a grid without rows and for the
\* exception of a content fallback
NormalizeRaised == [raised |-> TRUE, df |-> EmptyFrame, colmap |-> RawColmap]

\* if not colmap["date"]: colmap["date"] = self._guess_date_col(df)
FillDate(c, cols, sample) ==
    IF IsNone(c.date) THEN [c EXCEPT !.date = _guess_date_col(cols, sample).col] ELSE c
\* if not colmap["debit"] or not colmap["credit"]
NeedAmounts(c) == IsNone(c.debit) \/ IsNone(c.credit)
\* colmap["debit"] = colmap["debit"] or dcol; the same for credit
FillAmounts(c, g) ==
    IF NeedAmounts(c)
    THEN [c EXCEPT !.debit = IF IsNone(@) THEN g.dcol ELSE @,
                   !.credit = IF IsNone(@) THEN g.ccol ELSE @]
    ELSE c
\* if not colmap["balance"]: colmap["balance"] = self._guess_balance_col(df)
FillBalance(c, cols, sample) ==
    IF IsNone(c.balance) THEN [c EXCEPT !.balance = _guess_balance_col(cols, sample).col] ELSE c
\* if not colmap["counterparty"]: ... = self._guess_counterparty_col(df)
FillCounterparty(c, cols) ==
    IF IsNone(c.counterparty)
    THEN [c EXCEPT !.counterparty = _guess_counterparty_col(cols)] ELSE c
\* if not colmap["description"]: ... = self._guess_description_col(df, exclude)
FillDescription(c, cols) ==
    IF IsNone(c.description)
    THEN [c EXCEPT !.description = _guess_description_col(cols, c.counterparty)] ELSE c

\* the heuristics after _infer_roles, in the order of the code; g is the outcome
\* of _guess_amount_cols, consulted only when an amount role is missing
MapGuessed(c1, g, cols, rows) ==
    IF \/ IsNone(_infer_roles(cols).date)
            /\ _guess_date_col(cols, Prefix(rows, SampleRows)).raised
       \/ NeedAmounts(c1) /\ g.raised
       \/ IsNone(c1.balance) /\ _guess_balance_col(cols, Prefix(rows, SampleRows)).raised
    THEN NormalizeRaised
    ELSE [raised |-> FALSE, df |-> [columns |-> cols, rows |-> rows],
          colmap |-> FillDescription(FillCounterparty(
                        FillBalance(FillAmounts(c1, g), cols, Prefix(rows, SampleRows)),
                        cols), cols)]
MapColumns(cols, rows) ==
    MapGuessed(FillDate(_infer_roles(cols), cols, Prefix(rows, SampleRows)),
               _guess_amount_cols(cols, Prefix(rows, SampleRows)), cols, rows)

\* the header row found in the first rows, or row 0 (df.iloc[0])
HeaderIdx(rows) == IF HeaderRowIdx(rows) = 0 THEN 1 ELSE HeaderRowIdx(rows)
\* the column names made of row h: fillna(""), str, strip, lower, made unique
HeaderNames(df, h) ==
    _make_unique_headers(
        [j \in 1..Len(df.rows[h]) |-> Lower(Strip(FillnaStr(df.rows[h][j])))],
        Len(df.columns))
\* df.iloc[header_row_idx + 1:]
DataRows(df, h) == SubSeq(df.rows, h + 1, Len(df.rows))
\* the header row becomes the column names, the rows after it the data
PromoteHeader(df, h) == MapColumns(HeaderNames(df, h), DataRows(df, h))

\* the header search run on a frame of one column as well
NormalizeAlwaysTabular(df) ==
    IF Len(df.rows) = 0 THEN NormalizeRaised ELSE PromoteHeader(df, HeaderIdx(df.rows))

_normalize_and_map_columns(df) ==
    IF Len(df.columns) = 1
    THEN [raised |-> FALSE, df |-> [columns |-> <<RawName>>, rows |-> df.rows],
          colmap |-> RawColmap]
    ELSE IF Len(df.rows) = 0
    THEN NormalizeRaised
    ELSE PromoteHeader(df, HeaderIdx(df.rows))

(***************************************************************************)
(* Card51Parser._extract_transactions                                      *)
(***************************************************************************)
\* truth value of an Optional[float] and of an Optional[str]
TruthyNum(o) == ~IsNone(o) /\ ~FIsZero(Val(o))
TruthyStr(o) == ~IsNone(o) /\ Val(o) # <<>>
\* (x or 0)
OrZero(o) == IF TruthyNum(o) THEN Val(o) ELSE FZero

\* "deb", "kred" in Cyrillic
KwDeb == <<1076, 1077, 1073>>
KwKred == <<1082, 1088, 1077, 1076>>

\* the transaction of one line of the single-column path
LineTxn(line) ==
    [date |-> ParseDateStr(line),
     debit |-> IF Contains(Lower(line), KwDeb) THEN NumStrToFloat(line) ELSE None,
     credit |-> IF Contains(Lower(line), KwKred) THEN NumStrToFloat(line) ELSE None,
     balance |-> None,
     counterparty |-> _extract_counterparty_free(line),
     description |-> Some(Prefix(line, DescriptionLimit))]

\* any([t["date"], t["debit"], t["credit"], t["counterparty"]])
LineKept(t) ==
    ~IsNone(t.date) \/ TruthyNum(t.debit) \/ TruthyNum(t.credit) \/ TruthyStr(t.counterparty)

\* col(name): index of the first column the role maps to, 0 for None
ColIdx(df, o) ==
    IF IsNone(o) \/ ~(\E j \in 1..Len(df.columns) : df.columns[j] = Val(o)) THEN 0
    ELSE IndexOf(df.columns, Val(o))

\* the characters the repr of a Series escapes: tab, line feed, carriage return
EscapeChars == {9, 10, 13}
\* the position the k-th character of t has in its escaped text
EscapedAt(t, k) == k + Cardinality({j \in 1..(k - 1) : t[j] \in EscapeChars})
\* the text t as the repr of a Series prints it: a tab, a carriage return
\* and a line feed become a backslash and the letter t, r, n
Escaped(t) ==
    [i \in 1..(EscapedAt(t, Len(t) + 1) - 1) |->
        LET k == CHOOSE j \in 1..Len(t) :
                     \/ EscapedAt(t, j) = i
                     \/ EscapedAt(t, j) = i - 1 /\ t[j] \in EscapeChars
        IN  IF t[k] \notin EscapeChars THEN t[k]
            ELSE IF EscapedAt(t, k) = i THEN 92
            ELSE IF t[k] = 9 THEN 116
            ELSE IF t[k] = 13 THEN 114
            ELSE 110]
\* a value of an object Series as to_string prints it: a space or the sign,
\* then the value; NaN for a missing float
ValueRepr(cell) ==
    IF cell.k = "num" /\ cell.v < 0 THEN FloatStr(cell.v)
    ELSE <<32>> \o (IF cell.k = "nan" THEN <<78, 97, 78>> ELSE Escaped(CellStr(cell)))
\* display.max_colwidth of pandas, the widest value str(Series) prints whole
MaxColWidth == 50
\* t right-justified in w characters
RJust(t, w) == [k \in 1..(IF w > Len(t) THEN w - Len(t) ELSE 0) |-> 32] \o t
RECURSIVE Widest(_)
\* the length of the longest string of the list l
Widest(l) == IF Len(l) = 0 THEN 0 ELSE Max2(Len(l[Len(l)]), Widest(SubSeq(l, 1, Len(l) - 1)))
\* the value x in a column of w characters: cut to w - 3 characters and
\* three dots when it is longer
Cut(x, w) == IF Len(x) > w THEN SubSeq(x, 1, w - 3) \o <<46, 46, 46>> ELSE x
\* the width of the values of a Series: that of the longest, at most MaxColWidth
ValueWidth(vals) == Min2(Widest(vals), MaxColWidth)
\* str(s) of the row s = df[c].iloc[i] for a label c that several columns
\* carry: a line per column, the label, three spaces and the values cut
\* and right-justified, then the name (the row number) and the dtype
SeriesStr(label, cells, i) ==
    Join([k \in 1..Len(cells) |->
             Escaped(label) \o <<32, 32, 32>>
                 \o RJust(Cut(ValueRepr(cells[k]),
                              ValueWidth([n \in 1..Len(cells) |-> ValueRepr(cells[n])])),
                          ValueWidth([n \in 1..Len(cells) |-> ValueRepr(cells[n])]))]
         \o << <<78, 97, 109, 101, 58, 32>> \o NatStr(i)
                \o <<44, 32, 100, 116, 121, 112, 101, 58, 32, 111, 98, 106, 101, 99, 116>> >>,
         <<10>>)
RECURSIVE CellsFrom(_, _, _, _)
\* the cells of row i (1-based) in the columns labelled c, from column j on
CellsFrom(df, c, i, j) ==
    IF j > Len(df.columns) THEN <<>>
    ELSE (IF df.columns[j] = c THEN <<df.rows[i][j]>> ELSE <<>>) \o CellsFrom(df, c, i, j + 1)
CellsAt(df, c, i) == CellsFrom(df, c, i, 1)
\* col(name).iloc[i] for a role that has a column: the cell, or for a
\* repeated label the row of its columns, which every reader turns into str
RoleCell(df, o, i) ==
    IF Repeated(df.columns, ColIdx(df, o))
    THEN StrCell(SeriesStr(Val(o), CellsAt(df, Val(o), i), i - 1))
    ELSE df.rows[i][ColIdx(df, o)]

\* the transaction of row i (1-based) of the tabular path
RowTxn(df, colmap, i) ==
    LET jcp == ColIdx(df, colmap.counterparty)
        jdesc == ColIdx(df, colmap.description)
        cp0 == IF jcp # 0
               THEN _normalize_counterparty(CellStr(RoleCell(df, colmap.counterparty, i)))
               ELSE None
    IN  [date |-> IF ColIdx(df, colmap.date) # 0 THEN _parse_date(RoleCell(df, colmap.date, i))
                  ELSE ParseDateStr(Join([j \in 1..Len(df.rows[i]) |-> CellStr(df.rows[i][j])],
                                         <<32>>)),
         debit |-> IF ColIdx(df, colmap.debit) # 0
                   THEN _num_to_float(RoleCell(df, colmap.debit, i)) ELSE None,
         credit |-> IF ColIdx(df, colmap.credit) # 0
                    THEN _num_to_float(RoleCell(df, colmap.credit, i)) ELSE None,
         balance |-> IF ColIdx(df, colmap.balance) # 0
                     THEN _num_to_float(RoleCell(df, colmap.balance, i)) ELSE None,
         counterparty |-> IF ~TruthyStr(cp0) /\ jdesc # 0
                          THEN _extract_counterparty_free(
                                   CellStr(RoleCell(df, colmap.description, i)))
                          ELSE cp0,
         description |-> IF jdesc # 0
                         THEN Some(Prefix(CellStr(RoleCell(df, colmap.description, i)),
                                          DescriptionLimit))
                         ELSE None]

\* the row filter left out: every row is appended
RowKeptAlways(t) == TRUE

\* any([date, debit, credit, balance, counterparty, description])
RowKept(t) ==
    \/ ~IsNone(t.date) \/ TruthyNum(t.debit) \/ TruthyNum(t.credit)
    \/ TruthyNum(t.balance) \/ TruthyStr(t.counterparty) \/ TruthyStr(t.description)

\* x["date"] or dt.date.min
SortKey(t) == IF IsNone(t.date) THEN DateMin ELSE Val(t.date)

RECURSIVE InsertByDate(_, _)
\* t put into the sorted list l after every element whose key is not larger
InsertByDate(l, t) ==
    IF Len(l) = 0 THEN <<t>>
    ELSE IF DateLess(SortKey(t), SortKey(l[Len(l)])) 
         THEN Append(InsertByDate(SubSeq(l, 1, Len(l) - 1), t), l[Len(l)])
         ELSE Append(l, t)

RECURSIVE SortByDate(_)
\* txns.sort(key=lambda x: x["date"] or dt.date.min), a stable sort
SortByDate(l) ==
    IF Len(l) = 0 THEN <<>>
    ELSE InsertByDate(SortByDate(SubSeq(l, 1, Len(l) - 1)), l[Len(l)])

\* the tabular path's list before the sort
TabularTxns(df, colmap) ==
    SelectSeq([i \in 1..Len(df.rows) |-> RowTxn(df, colmap, i)], RowKept)

_extract_transactions(df, colmap) ==
    IF Len(df.columns) = 1 /\ df.columns[1] = RawName
    THEN SelectSeq([i \in 1..Len(df.rows) |-> LineTxn(CellStr(df.rows[i][1]))], LineKept)
    ELSE SortByDate(TabularTxns(df, colmap))

(***************************************************************************)
(* Card51Parser._analyze_cashflow                                          *)
(***************************************************************************)
\* n as at least w decimal digits
RECURSIVE Pad(_, _)
Pad(n, w) == IF Len(NatStr(n)) >= w THEN NatStr(n) ELSE <<48>> \o Pad(n, w - 1)
\* d.strftime("%Y-%m"): %Y of the C library is the year without leading
\* zeros, %m the month in two digits
MonthKey(d) == NatStr(d[1]) \o <<45>> \o Pad(d[2], 2)
\* f"{d.isocalendar()[0]}-W{d.isocalendar()[1]}"
WeekKey(d) == NatStr(IsoCalendar(d)[1]) \o <<45, 87>> \o NatStr(IsoCalendar(d)[2])
\* "unknown"
UnknownKey == <<117, 110, 107, 110, 111, 119, 110>>
EmptyDict == [x \in {} |-> 0]

\* d[k] += v on a defaultdict(float)
AddTo(d, k, v) ==
    IF k \in DOMAIN d THEN [d EXCEPT ![k] = FAdd(@, v)] ELSE (k :> FAdd(FZero, v)) @@ d

RECURSIVE SumField(_, _)
\* sum((t.get(field) or 0) for t in txns): the terms are added one by one,
\* from the left, to the start value 0
SumField(txns, field) ==
    IF Len(txns) = 0 THEN FZero
    ELSE FAdd(SumField(SubSeq(txns, 1, Len(txns) - 1), field), OrZero(txns[Len(txns)][field]))

RECURSIVE ByMonthUndatedToo(_, _)
\* the per-month loop with the undated transactions kept under "unknown"
ByMonthUndatedToo(txns, field) ==
    IF Len(txns) = 0 THEN EmptyDict
    ELSE LET t == txns[Len(txns)]
             acc == ByMonthUndatedToo(SubSeq(txns, 1, Len(txns) - 1), field)
         IN  IF TruthyNum(t[field])
             THEN AddTo(acc, IF IsNone(t.date) THEN UnknownKey ELSE MonthKey(Val(t.date)),
                        Val(t[field]))
             ELSE acc

RECURSIVE ByMonth(_, _)
\* the per-month loop of _analyze_cashflow for one field
ByMonth(txns, field) ==
    IF Len(txns) = 0 THEN EmptyDict
    ELSE LET t == txns[Len(txns)]
             acc == ByMonth(SubSeq(txns, 1, Len(txns) - 1), field)
         IN  IF ~IsNone(t.date) /\ TruthyNum(t[field])
             THEN AddTo(acc, MonthKey(Val(t.date)), Val(t[field]))
             ELSE acc

_analyze_cashflow(txns) ==
    [cash_in |-> SumField(txns, "debit"),
     cash_out |-> SumField(txns, "credit"),
     delta |-> FSub(SumField(txns, "debit"), SumField(txns, "credit")),
     by_month_in |-> ByMonth(txns, "debit"),
     by_month_out |-> ByMonth(txns, "credit")]

(***************************************************************************)
(* Card51Parser._analyze_balances                                          *)
(***************************************************************************)
\* "vkhodyashchiy", "nachaln" in Cyrillic
KwOpening ==
    << <<1074, 1093, 1086, 1076, 1103, 1097, 1080, 1081>>,
       <<1085, 1072, 1095, 1072, 1083, 1100, 1085>> >>

\* the row carries an opening-balance marker
IsOpeningRow(t) ==
    TruthyStr(t.description) /\ ContainsAny(Lower(Val(t.description)), KwOpening)

\* the balance an opening row stands for
OpeningOf(t) ==
    IF ~IsNone(t.balance) THEN Val(t.balance)
    ELSE FSub(OrZero(t.debit), OrZero(t.credit))

\* the opening balance: the first marked row among txns[:5], else 0.0
OpeningBalance(txns) ==
    LET first == Prefix(txns, OpeningScanRows)
        hit == {i \in 1..Len(first) : IsOpeningRow(first[i])}
    IN  IF hit = {} THEN FZero
        ELSE OpeningOf(first[CHOOSE i \in hit : \A j \in hit : i <= j])

\* curr += debit, curr -= credit, each for an amount that is not 0
Accumulate(curr, t) ==
    LET c1 == IF TruthyNum(t.debit) THEN FAdd(curr, Val(t.debit)) ELSE curr
    IN  IF TruthyNum(t.credit) THEN FSub(c1, Val(t.credit)) ELSE c1

\* the fold without the branch that trusts a declared balance
FoldStepAccumulateOnly(curr, t) == Accumulate(curr, t)

\* the fold with the credit left out of the running value
FoldStepNoCredit(curr, t) ==
    IF ~IsNone(t.balance) THEN Val(t.balance)
    ELSE IF TruthyNum(t.debit) THEN FAdd(curr, Val(t.debit)) ELSE curr

\* one step of the fold: the running value after transaction t
FoldStep(curr, t) ==
    IF ~IsNone(t.balance) THEN Val(t.balance) ELSE Accumulate(curr, t)

RECURSIVE Running(_, _)
\* the running values after each transaction, in fold order
Running(txns, opening) ==
    IF Len(txns) = 0 THEN <<>>
    ELSE LET before == Running(SubSeq(txns, 1, Len(txns) - 1), opening)
             curr == IF Len(before) = 0 THEN opening ELSE before[Len(before)]
         IN  Append(before, FoldStep(curr, txns[Len(txns)]))

RECURSIVE DailyFromFirstWrite(_, _, _, _)
\* the daily map with the first value written under a key kept
DailyFromFirstWrite(txns, running, i, daily) ==
    IF i > Len(txns) THEN daily
    ELSE DailyFromFirstWrite(txns, running, i + 1,
             daily @@ (SortKey(txns[i]) :> running[i]))

RECURSIVE DailyFromSum(_, _, _, _)
\* the daily map as the sum of the running values of a day
DailyFromSum(txns, running, i, daily) ==
    IF i > Len(txns) THEN daily
    ELSE DailyFromSum(txns, running, i + 1,
             (SortKey(txns[i]) :>
                 FAdd(IF SortKey(txns[i]) \in DOMAIN daily THEN daily[SortKey(txns[i])]
                      ELSE FZero, running[i])) @@ daily)

RECURSIVE DailyFrom(_, _, _, _)
\* daily[d] = curr for every transaction from index i on
DailyFrom(txns, running, i, daily) ==
    IF i > Len(txns) THEN daily
    ELSE DailyFrom(txns, running, i + 1, (SortKey(txns[i]) :> running[i]) @@ daily)

RECURSIVE SortedDates(_)
\* sorted(daily)
SortedDates(ds) ==
    IF ds = {} THEN <<>>
    ELSE LET d == CHOOSE x \in ds : \A y \in ds : DateLeq(x, y)
         IN  <<d>> \o SortedDates(ds \ {d})

PeriodKey(d, period) ==
    IF d = DateMin THEN UnknownKey
    ELSE IF period = "month" THEN MonthKey(d) ELSE WeekKey(d)

RECURSIVE PeriodLast(_, _, _, _, _)
\* by_month_last / by_week_last: the loop over sorted(daily) from index i
PeriodLast(dates, daily, period, i, acc) ==
    IF i > Len(dates) THEN acc
    ELSE PeriodLast(dates, daily, period, i + 1,
             (PeriodKey(dates[i], period) :> daily[dates[i]]) @@ acc)

RECURSIVE DailyOrder(_)
\* the keys of daily in the order of their first insertion
DailyOrder(txns) ==
    IF Len(txns) = 0 THEN <<>>
    ELSE LET before == DailyOrder(SubSeq(txns, 1, Len(txns) - 1))
             k == SortKey(txns[Len(txns)])
         IN  IF \E i \in 1..Len(before) : before[i] = k THEN before ELSE Append(before, k)

RECURSIVE FSum(_)
\* sum(vals): the values added one by one, from the left, to the start 0
FSum(vals) ==
    IF Len(vals) = 0 THEN FZero
    ELSE FAdd(FSum(SubSeq(vals, 1, Len(vals) - 1)), vals[Len(vals)])
\* min(vals): the first value no other value is less than
FMin(vals) ==
    vals[CHOOSE i \in 1..Len(vals) :
            /\ \A j \in 1..Len(vals) : ~FLess(vals[j], vals[i])
            /\ \A j \in 1..(i - 1) : FLess(vals[i], vals[j])]
\* max(vals): the first value no other value is greater than
FMax(vals) ==
    vals[CHOOSE i \in 1..Len(vals) :
            /\ \A j \in 1..Len(vals) : ~FLess(vals[i], vals[j])
            /\ \A j \in 1..(i - 1) : FLess(vals[j], vals[i])]

\* the entry of the stress test for a month-end balance
StressEntry(end_bal, monthly_payment) ==
    LET after == FSub(end_bal, monthly_payment)
    IN  [end_balance_after_payment |-> after,
         shortfall |-> IF FLess(after, FZero) THEN FNeg(after) ELSE FZero,
         default_risk |-> FLess(after, FZero)]

\* the stress test without the test of the payment
StressTestAnyPayment(by_month_end, monthly_payment) ==
    [m \in DOMAIN by_month_end |-> StressEntry(by_month_end[m], monthly_payment)]

\* the stress test of _analyze_balances: "if monthly_payment and
\* monthly_payment > 0"
StressTest(by_month_end, monthly_payment) ==
    IF ~FIsZero(monthly_payment) /\ FLess(FZero, monthly_payment)
    THEN [m \in DOMAIN by_month_end |-> StressEntry(by_month_end[m], monthly_payment)]
    ELSE EmptyDict

\* the returned summary and stress_test, and beside them the locals of the
\* method: opening, the values of curr after each transaction (running) and
\* daily
_analyze_balances(txns, colmap, monthly_payment) ==
    LET opening == OpeningBalance(txns)
        running == Running(txns, opening)
        daily == DailyFrom(txns, running, 1, EmptyDict)
        dates == SortedDates(DOMAIN daily)
        order == DailyOrder(txns)
        vals == [i \in 1..Len(order) |-> daily[order[i]]]
        by_month_end == PeriodLast(dates, daily, "month", 1, EmptyDict)
    IN  [opening |-> opening,
         running |-> running,
         daily |-> daily,
         summary |->
            [daily_min |-> IF Len(vals) = 0 THEN None ELSE Some(FMin(vals)),
             daily_max |-> IF Len(vals) = 0 THEN None ELSE Some(FMax(vals)),
             daily_avg |-> IF Len(vals) = 0 THEN None
                           ELSE Some(FDiv(FSum(vals), FromInt(Len(vals)))),
             by_month_end |-> by_month_end,
             by_week_end |-> PeriodLast(dates, daily, "week", 1, EmptyDict)],
         stress_test |-> StressTest(by_month_end, monthly_payment)]

(***************************************************************************)
(* Card51Parser._analyze_counterparties                                    *)
(***************************************************************************)
RECURSIVE CounterAdd(_, _, _)
\* counter[name] += v on a Counter kept as a list of <<name, amount>> in
\* insertion order
CounterAdd(counter, name, v) ==
    IF Len(counter) = 0 THEN << <<name, FAdd(FZero, v)>> >>
    ELSE IF counter[1][1] = name THEN << <<name, FAdd(counter[1][2], v)>> >> \o Tail(counter)
    ELSE <<counter[1]>> \o CounterAdd(Tail(counter), name, v)

RECURSIVE FlowCounter(_, _)
\* inflow (field "debit") or outflow (field "credit") of the loop over txns
FlowCounter(txns, field) ==
    IF Len(txns) = 0 THEN <<>>
    ELSE LET t == txns[Len(txns)]
             acc == FlowCounter(SubSeq(txns, 1, Len(txns) - 1), field)
         IN  IF TruthyStr(t.counterparty) /\ TruthyNum(t[field])
             THEN CounterAdd(acc, Val(t.counterparty), Val(t[field]))
             ELSE acc

RECURSIVE InsertByAmount(_, _)
InsertByAmount(l, e) ==
    IF Len(l) = 0 THEN <<e>>
    ELSE IF FLess(l[Len(l)][2], e[2])
         THEN Append(InsertByAmount(SubSeq(l, 1, Len(l) - 1), e), l[Len(l)])
         ELSE Append(l, e)

RECURSIVE SortByAmountDesc(_)
\* sorted(counter.items(), key=amount, reverse=True), stable
SortByAmountDesc(l) ==
    IF Len(l) = 0 THEN <<>>
    ELSE InsertByAmount(SortByAmountDesc(SubSeq(l, 1, Len(l) - 1)), l[Len(l)])

\* the ranking without the cut after k entries
MostCommonAll(counter, k) == SortByAmountDesc(counter)

\* counter.most_common(k)
MostCommon(counter, k) == Prefix(SortByAmountDesc(counter), k)

\* (amt / total) if total else 0.0
Share(amount, total) == IF ~FIsZero(total) THEN FDiv(amount, total) ELSE FZero

top_with_share(counter, total, k) ==
    LET top == MostCommon(counter, k)
        res == [i \in 1..Len(top) |->
                  [name |-> top[i][1], amount |-> top[i][2],
                   share |-> Share(top[i][2], total)]]
        shares == [i \in 1..Len(res) |-> res[i].share]
    IN  [top |-> res,
         concentration |->
            [top1 |-> IF Len(res) = 0 THEN FZero ELSE res[1].share,
             top3 |-> FSum(Prefix(shares, 3)),
             top5 |-> FSum(Prefix(shares, 5))]]

_analyze_counterparties(txns, cashflow) ==
    [inflow |-> top_with_share(FlowCounter(txns, "debit"), cashflow.cash_in, TopK),
     outflow |-> top_with_share(FlowCounter(txns, "credit"), cashflow.cash_out, TopK)]

(***************************************************************************)
(* The payloads the parser is run on.  Cyrillic text is given by its code  *)
(* points, with a transliteration beside it.                               *)
(***************************************************************************)
\* "15.01.2024 debet 100 OOO Romashka"
LineDebitLegal ==
    <<49, 53, 46, 48, 49, 46, 50, 48, 50, 52, 32, 1076, 1077, 1073, 1077,
      1090, 32, 49, 48, 48, 32, 1054, 1054, 1054, 32, 1056, 1086, 1084,
      1072, 1096, 1082, 1072>>
\* "01.01.2024 kredit 50"
LineCredit ==
    <<48, 49, 46, 48, 49, 46, 50, 48, 50, 52, 32, 1082, 1088, 1077, 1076,
      1080, 1090, 32, 53, 48>>
\* "Postuplenie ot INN 7701234567 za uslugi" (Scenario B)
LineInn ==
    <<1055, 1086, 1089, 1090, 1091, 1087, 1083, 1077, 1085, 1080, 1077, 32,
      1086, 1090, 32, 1048, 1053, 1053, 32, 55, 55, 48, 49, 50, 51, 52, 53,
      54, 55, 32, 1079, 1072, 32, 1091, 1089, 1083, 1091, 1075, 1080>>
\* "OOO Romashka INN 7701234567": a legal-entity prefix before the number
LineLegalInn ==
    <<1054, 1054, 1054, 32, 1056, 1086, 1084, 1072, 1096, 1082, 1072, 32,
      1048, 1053, 1053, 32, 55, 55, 48, 49, 50, 51, 52, 53, 54, 55>>
\* "data 05.02.2024 debet 300": two header keywords and data
LineHeaderLike ==
    <<1076, 1072, 1090, 1072, 32, 48, 53, 46, 48, 50, 46, 50, 48, 50, 52,
      32, 1076, 1077, 1073, 1077, 1090, 32, 51, 48, 48>>
\* "prosto tekst": no date, amount or counterparty
LinePlain ==
    <<1087, 1088, 1086, 1089, 1090, 1086, 32, 1090, 1077, 1082, 1089, 1090>>
\* a line of white space
LineBlank ==
    <<32, 32>>
\* "debet 0"
LineZero ==
    <<1076, 1077, 1073, 1077, 1090, 32, 48>>
\* "debet 1 234,56": an amount without a date
LineUndated ==
    <<1076, 1077, 1073, 1077, 1090, 32, 49, 32, 50, 51, 52, 44, 53, 54>>
\* "Vkhodyashchiy ostatok debet 500": an opening-balance marker
LineOpening ==
    <<1042, 1093, 1086, 1076, 1103, 1097, 1080, 1081, 32, 1086, 1089, 1090,
      1072, 1090, 1086, 1082, 32, 1076, 1077, 1073, 1077, 1090, 32, 53, 48,
      48>>
\* "Data"
HDate ==
    <<1044, 1072, 1090, 1072>>
\* "Debet"
HDebit ==
    <<1044, 1077, 1073, 1077, 1090>>
\* "Kredit"
HCredit ==
    <<1050, 1088, 1077, 1076, 1080, 1090>>
\* "Ostatok"
HBalance ==
    <<1054, 1089, 1090, 1072, 1090, 1086, 1082>>
\* "Kontragent"
HCounterparty ==
    <<1050, 1086, 1085, 1090, 1088, 1072, 1075, 1077, 1085, 1090>>
\* "Naznachenie"
HPurpose ==
    <<1053, 1072, 1079, 1085, 1072, 1095, 1077, 1085, 1080, 1077>>
\* "Dt"
HDt ==
    <<1044, 1090>>
\* "Kt"
HKt ==
    <<1050, 1090>>
\* "Schet"
HAccount ==
    <<1057, 1095, 1077, 1090>>
\* "Summa"
HSum ==
    <<1057, 1091, 1084, 1084, 1072>>
\* "Kartochka scheta 51"
TitleText ==
    <<1050, 1072, 1088, 1090, 1086, 1095, 1082, 1072, 32, 1089, 1095, 1077,
      1090, 1072, 32, 53, 49>>
\* "01.01.2024"
D0101 ==
    <<48, 49, 46, 48, 49, 46, 50, 48, 50, 52>>
\* "15.01.2024"
D1501 ==
    <<49, 53, 46, 48, 49, 46, 50, 48, 50, 52>>
\* "05.02.2024"
D0502 ==
    <<48, 53, 46, 48, 50, 46, 50, 48, 50, 52>>
\* "31.02.2024": no such day
D3102 ==
    <<51, 49, 46, 48, 50, 46, 50, 48, 50, 52>>
\* "1 234,56"
AmtSpaced ==
    <<49, 32, 50, 51, 52, 44, 53, 54>>
\* "(50)"
AmtParen ==
    <<40, 53, 48, 41>>
\* "OOO Romashka"
NameRomashka ==
    <<1054, 1054, 1054, 32, 1056, 1086, 1084, 1072, 1096, 1082, 1072>>
\* "oplata"
TextPayment ==
    <<1086, 1087, 1083, 1072, 1090, 1072>>
\* "INN 7701234567"
TextInn ==
    <<1048, 1053, 1053, 32, 55, 55, 48, 49, 50, 51, 52, 53, 54, 55>>
\* "Vkhodyashchiy ostatok"
TextOpening ==
    <<1042, 1093, 1086, 1076, 1103, 1097, 1080, 1081, 32, 1086, 1089, 1090,
      1072, 1090, 1086, 1082>>

\* all sequences over S of length at most n
SeqsUpTo(S, n) == UNION {[1..k -> S] : k \in 0..n}

LineVocab ==
    {LineDebitLegal, LineCredit, LineInn, LineLegalInn, LineHeaderLike, LinePlain,
     LineBlank, LineZero, LineUndated, LineOpening}
\* raw text: up to MaxLines lines joined by "\n"
TextPayloads == {TextPayload(Join(ls, <<10>>)) : ls \in SeqsUpTo(LineVocab, MaxLines)}

OneColCells ==
    {StrCell(LineDebitLegal), StrCell(LineCredit), StrCell(LineHeaderLike), NaNCell,
     NumCell(100 * Unit)}
\* grids of one column
OneColPayloads ==
    {GridPayload(1, [i \in 1..Len(cs) |-> <<cs[i]>>]) : cs \in SeqsUpTo(OneColCells, MaxRows)}

\* a data row by role; a layout puts its fields under the layout's headers
RowOf(date, debit, credit, balance, counterparty, description) ==
    [date |-> date, debit |-> debit, credit |-> credit, balance |-> balance,
     counterparty |-> counterparty, description |-> description]
RowTemplates ==
    {RowOf(StrCell(D1501), NumCell(100 * Unit), NaNCell, NaNCell,
           StrCell(NameRomashka), StrCell(TextPayment)),
     RowOf(StrCell(D0101), NaNCell, NumCell(40 * Unit), NumCell(500 * Unit),
           NaNCell, StrCell(TextInn)),
     RowOf(StrCell(D0502), StrCell(AmtSpaced), StrCell(AmtParen), NaNCell,
           StrCell(<<>>), StrCell(<<>>)),
     RowOf(NaNCell, NumCell(30 * Unit), NaNCell, NaNCell, NaNCell, NaNCell),
     RowOf(StrCell(<<>>), StrCell(<<>>), StrCell(<<>>), StrCell(<<>>),
           StrCell(<<>>), StrCell(<<>>)),
     RowOf(StrCell(D0101), NumCell(200 * Unit), NaNCell, NaNCell,
           StrCell(<<>>), StrCell(TextOpening)),
     RowOf(StrCell(D3102), NumCell(0), NumCell(0), NumCell(0),
           StrCell(<<>>), StrCell(<<>>)),
     RowOf(StrCell(D1501), NaNCell, NumCell(700 * Unit), NaNCell,
           StrCell(<<>>), StrCell(<<>>))}

Col(head, field) == [head |-> head, field |-> field]
Layouts ==
    {<<Col(HDate, "date"), Col(HDebit, "debit"), Col(HCredit, "credit"),
       Col(HBalance, "balance"), Col(HCounterparty, "counterparty"),
       Col(HPurpose, "description")>>,
     <<Col(HDate, "date"), Col(HDt, "debit"), Col(HKt, "credit"),
       Col(HPurpose, "description")>>,
     <<Col(HDebit, "debit"), Col(HCredit, "credit"), Col(HCounterparty, "counterparty")>>,
     <<Col(HAccount, "counterparty"), Col(HSum, "debit")>>,
     <<Col(HDate, "date"), Col(HDt, "balance"), Col(HDebit, "debit"),
       Col(HCredit, "credit")>>}

\* the layout with a column for every role
FullLayout == CHOOSE l \in Layouts : Len(l) = 6

HeaderRow(layout) == [j \in 1..Len(layout) |-> StrCell(layout[j].head)]
DataRow(layout, t) == [j \in 1..Len(layout) |-> t[layout[j].field]]
TitleRow(layout) ==
    [j \in 1..Len(layout) |-> IF j = 1 THEN StrCell(TitleText) ELSE NaNCell]
\* a row with a name in its first cell, without a digit and without a keyword
NameRow(layout) ==
    [j \in 1..Len(layout) |-> IF j = 1 THEN StrCell(NameRomashka) ELSE NaNCell]
\* grids with the header row in the last scanned row and in the row after it
DeepHeaderPayloads ==
    {GridPayload(Len(FullLayout),
                 [i \in 1..n |-> NameRow(FullLayout)] \o <<HeaderRow(FullLayout)>>) :
        n \in {HeaderScanRows - 1, HeaderScanRows}}
\* "15.01.2024 Vkhodyashchiy ostatok debet 500": a dated opening marker
LineOpeningDated == D1501 \o <<32>> \o LineOpening
\* payloads with two opening markers, and with a marker below the scanned rows
OpeningPayloads ==
    {TextPayload(Join(<<LineOpeningDated, LineOpening>>, <<10>>)),
     GridPayload(Len(FullLayout),
        <<HeaderRow(FullLayout),
          DataRow(FullLayout, RowOf(StrCell(D1501), NumCell(200 * Unit), NaNCell,
                                    NaNCell, StrCell(<<>>), StrCell(TextOpening)))>>
        \o [i \in 1..OpeningScanRows |->
               DataRow(FullLayout, RowOf(StrCell(D0101), NaNCell, NumCell(40 * Unit),
                                         NaNCell, StrCell(<<>>), StrCell(TextPayment)))])}

\* grids of several columns: a header row and data rows, a title row above
\* the header, a header far below the top, or no row at all
MultiPayloads ==
    {GridPayload(Len(l), <<HeaderRow(l)>> \o [i \in 1..Len(ts) |-> DataRow(l, ts[i])]) :
        l \in Layouts, ts \in SeqsUpTo(RowTemplates, MaxRows - 1)}
    \cup
    {GridPayload(Len(l), <<TitleRow(l), HeaderRow(l)>>
                            \o [i \in 1..Len(ts) |-> DataRow(l, ts[i])]) :
        l \in Layouts, ts \in SeqsUpTo(RowTemplates, MaxRows - 2)}
    \cup
    {GridPayload(Len(l), <<>>) : l \in Layouts}
    \cup DeepHeaderPayloads

\* a grid with more counterparties than a ranking lists: row i has the debit
\* 10 * i, rows 5 and 6 a credit, the last row an amount without counterparty
RankingRows == TopK + 1
RankingPayloads ==
    {GridPayload(Len(FullLayout),
        <<HeaderRow(FullLayout)>>
        \o [i \in 1..RankingRows |->
               DataRow(FullLayout,
                   RowOf(StrCell(D0101), NumCell(10 * i * Unit),
                         IF i >= TopK THEN NumCell(i * Unit) ELSE NaNCell, NaNCell,
                         StrCell(<<1040 + i>>), StrCell(TextPayment)))]
        \o <<DataRow(FullLayout,
                 RowOf(StrCell(D1501), NumCell(40 * Unit), NumCell(Unit), NaNCell,
                       StrCell(<<>>), StrCell(TextPayment)))>>)}

\* "kt_1" and "summa_1" in Cyrillic: names the suffix of a repeated header makes
HKt1 == <<1082, 1090, 95, 49>>
HSum1 == <<1089, 1091, 1084, 1084, 1072, 95, 49>>
\* "15.06.0999 debet 100": a date of a year before 1000
LineEarlyYear ==
    <<49, 53, 46, 48, 54, 46, 48, 57, 57, 57, 32, 1076, 1077, 1073, 1077, 1090, 32, 49, 48, 48>>
\* headers that come out of _make_unique_headers with a repeated name, the
\* roles found by name (kt_1, kt, kt, data, dt, saldo) or left to the
\* content (summa, summa, summa_1, data); None in the cells without a value;
\* a date of the year 999
\* a description of 56 characters
LongDescription ==
    <<1086, 1087, 1083, 1072, 1090, 1072, 32, 1087, 1086, 32, 1076, 1086, 1075, 1086,
      1074, 1086, 1088, 1091, 32, 1087, 1086, 1089, 1090, 1072, 1074, 1082, 1080, 32,
      1086, 1073, 1086, 1088, 1091, 1076, 1086, 1074, 1072, 1085, 1080, 1103, 32, 55,
      32, 1086, 1090, 32, 49, 53, 46, 48, 49, 46, 50, 48, 50, 52>>
HOpis == <<1086, 1087, 1080, 1089>>
HOpis1 == HOpis \o <<95, 49>>
CornerPayloads ==
    {GridPayload(7,
        << <<StrCell(HOpis1), StrCell(HDate), StrCell(HDebit), StrCell(HCredit),
             StrCell(KwBalance[1]), StrCell(HOpis), StrCell(HOpis)>>,
           <<StrCell(<<97, 9, 98>>), StrCell(D1501), NumCell(100 * Unit), NaNCell,
             NumCell(9 * Unit), StrCell(<<120>>), StrCell(<<97, 10, 98>>)>>,
           <<StrCell(LongDescription), StrCell(D0101), NaNCell, NumCell(40 * Unit),
             NumCell(49 * Unit), StrCell(<<120>>), StrCell(<<121>>)>> >>),
     GridPayload(6,
        << <<StrCell(HKt1), StrCell(HKt), StrCell(HKt), StrCell(HDate), StrCell(HDt),
             StrCell(KwBalance[2])>>,
           <<NumCell(100 * Unit), NumCell(200 * Unit), NumCell(300 * Unit), StrCell(D1501),
             NumCell(5 * Unit), NumCell(9 * Unit)>> >>),
     GridPayload(4,
        << <<StrCell(HSum), StrCell(HSum), StrCell(HSum1), StrCell(HDate)>>,
           <<NumCell(100 * Unit), NumCell(200 * Unit), NumCell(300 * Unit), StrCell(D1501)>> >>),
     GridPayload(Len(FullLayout),
        <<HeaderRow(FullLayout),
          DataRow(FullLayout, RowOf(StrCell(D1501), NumCell(100 * Unit), NoneCell, NoneCell,
                                    NoneCell, NoneCell)),
          DataRow(FullLayout, RowOf(StrCell(D0101), NoneCell, NumCell(40 * Unit), NoneCell,
                                    StrCell(NameRomashka), NoneCell))>>),
     TextPayload(Join(<<LineEarlyYear, LineCredit>>, <<10>>))}

\* n hundredths as a whole number of 10^-FracDigits
Cents(n) == n * Pow10(FracDigits - 2)
\* "16.01.2024"
D1601 ==
    <<49, 54, 46, 48, 49, 46, 50, 48, 50, 52>>
\* "01.01.0001": the day that is datetime.date.min
D0001 ==
    <<48, 49, 46, 48, 49, 46, 48, 48, 48, 49>>
\* "512,04", "12,04" and "(0,3)"
Amt51204 ==
    <<53, 49, 50, 44, 48, 52>>
Amt1204 ==
    <<49, 50, 44, 48, 52>>
AmtParenTenths ==
    <<40, 48, 44, 51, 41>>
\* "debet " and "kredit "
WordDebit ==
    <<1076, 1077, 1073, 1077, 1090, 32>>
WordCredit ==
    <<1082, 1088, 1077, 1076, 1080, 1090, 32>>
\* "debet 512,04" and "kredit 12,04": amounts whose difference is no float
LineDebitCents == WordDebit \o Amt51204
LineCreditCents == WordCredit \o Amt1204
\* "01.01.0001 debet 100"
LineFirstDay == D0001 \o <<32>> \o WordDebit \o <<49, 48, 48>>
\* a row of the full layout with a date, a debit, a credit and a counterparty
AmountRow(date, debit, credit, name) ==
    DataRow(FullLayout, RowOf(date, debit, credit, NaNCell, name, StrCell(TextPayment)))
\* amounts with a binary expansion that does not end: their sums and
\* differences are rounded.  512.04 - 12.04 over two months; the debits 0.3,
\* 0.1, 0.2 of two counterparties; the debits 0.1, 0.2, -0.3 of three; the
\* debits 0.1, 0.2 of two months and 0.3 without a date
RoundingPayloads ==
    {TextPayload(Join(<<LineDebitCents, LineCreditCents>>, <<10>>)),
     GridPayload(Len(FullLayout),
        <<HeaderRow(FullLayout),
          AmountRow(StrCell(D1501), StrCell(Amt51204), NaNCell, StrCell(NameRomashka)),
          AmountRow(StrCell(D0502), NaNCell, NumCell(Cents(1204)), StrCell(NameRomashka))>>),
     GridPayload(Len(FullLayout),
        <<HeaderRow(FullLayout),
          AmountRow(StrCell(D0101), NumCell(Cents(30)), NaNCell, StrCell(<<1041>>)),
          AmountRow(StrCell(D0101), NumCell(Cents(10)), NaNCell, StrCell(<<1040>>)),
          AmountRow(StrCell(D0101), NumCell(Cents(20)), NaNCell, StrCell(<<1040>>))>>),
     GridPayload(Len(FullLayout),
        <<HeaderRow(FullLayout),
          AmountRow(StrCell(D0101), NumCell(Cents(10)), NaNCell, StrCell(<<1040>>)),
          AmountRow(StrCell(D0101), NumCell(Cents(20)), NaNCell, StrCell(<<1041>>)),
          AmountRow(StrCell(D0101), StrCell(AmtParenTenths), NaNCell, StrCell(<<1042>>))>>),
     GridPayload(Len(FullLayout),
        <<HeaderRow(FullLayout),
          AmountRow(StrCell(D0101), NumCell(Cents(10)), NaNCell, StrCell(<<1040>>)),
          AmountRow(StrCell(D0502), NumCell(Cents(20)), NaNCell, StrCell(<<1040>>)),
          AmountRow(NaNCell, NumCell(Cents(30)), NaNCell, StrCell(<<1041>>))>>)}
\* transactions dated 01.01.0001, the day the fold files the transactions
\* without a date under: after, before and between such transactions
FirstDayPayloads ==
    {TextPayload(Join(<<LineUndated, LineFirstDay>>, <<10>>)),
     TextPayload(Join(<<LineFirstDay, LineUndated, LineCredit>>, <<10>>)),
     TextPayload(LineFirstDay),
     GridPayload(Len(FullLayout),
        <<HeaderRow(FullLayout),
          AmountRow(StrCell(D0001), NumCell(100 * Unit), NaNCell, StrCell(NameRomashka)),
          AmountRow(NaNCell, NumCell(30 * Unit), NaNCell, StrCell(<<>>)),
          AmountRow(StrCell(D1501), NaNCell, NumCell(700 * Unit), StrCell(<<>>)),
          AmountRow(StrCell(D1501), NumCell(200 * Unit), NaNCell, StrCell(<<>>))>>)}

Payloads ==
    TextPayloads \cup OneColPayloads \cup MultiPayloads \cup OpeningPayloads
        \cup RankingPayloads \cup CornerPayloads \cup RoundingPayloads \cup FirstDayPayloads
\* the monthly payments of the stress test: none, one above the balances, a
\* negative one
Payments == {FZero, Amount(500 * Unit), Amount(-500 * Unit)}

(***************************************************************************)
(* The state: the arguments of parse, the locals of ErrorHandler.run that  *)
(* wraps it (safe_run), and the locals of parse.                           *)
(***************************************************************************)
VARIABLES
    history,           \* the calls of parse that ended before this one: arguments and value
    default,           \* run: the argument default, an Optional: None, or Some(d) for
                       \* the dict object d that safe_run(default={}) binds in its closure
    raw_data,          \* parse: the payload
    monthly_payment,   \* parse: the payment of the stress test
    retries,           \* ErrorHandler.retries
    base_delay,        \* ErrorHandler.base_delay
    backoff,           \* ErrorHandler.backoff
    attempt,           \* run: the loop variable, 0 before the loop
    delay,             \* run: the delay before the next attempt
    slept,             \* the delays time.sleep was called with, in order
    outcomes,          \* the outcome of every invocation of func, in order
    fret,              \* the value func returned
    ret,               \* the value run returned
    pc,                \* the statement about to run
    df, colmap, txns, cashflow, balances, counterparties,  \* locals of parse
    mu_headers,        \* _make_unique_headers: the argument headers
    mu_n,              \* _make_unique_headers: the argument n
    mu_res,            \* _make_unique_headers: the returned list, as an Optional
    sc_values,         \* score: the metric values read from results, in thousandths
    sc_result,         \* score: the returned dict, as an Optional
    pl_docs,           \* run_pipeline: what the input directory holds of each document type
    pl_results,        \* run_pipeline: the dict results, each value by its shape
    pl_report,         \* run_pipeline: md_report, by its shape
    pl_pc,             \* run_pipeline: the stage about to run
    pl_env,            \* run_pipeline: the exports that succeed and the encoding of sys.stdout
    pl_files,          \* run_pipeline: the report files written, by the key of mapping
    ap_request,        \* app: the request being handled, endpoint and path parameter
    ap_files,          \* app: the report files that exist, by the key of mapping
    ap_pipeline,       \* app: how run_pipeline ends when run_pd calls it
    ap_exc,            \* app: the status of the HTTPException the handler body raised
    wd_tasks,          \* Watchdog._tasks: the dict of the task under each registered name
    wd_threads,        \* Watchdog: the runner threads started so far, in order
    wd_clock,          \* Watchdog: time.time(), in units of the timeout
    wd_stop,           \* Watchdog._stop_event
    wd_mon,            \* Watchdog._thread: the position of _loop, its now and its list of tasks
    wd_calls,          \* the calls of register_task that have stored the dict and not started the thread
    wd_dicts           \* the number of task dicts made so far

handler == <<retries, base_delay, backoff, attempt, delay, slept, outcomes, ret>>
locals == <<df, colmap, txns, cashflow, balances, counterparties>>
\* the state of the components run apart from parse
unique == <<mu_headers, mu_n, mu_res>>
scoring == <<sc_values, sc_result>>
pipeline == <<pl_docs, pl_results, pl_report, pl_pc, pl_env, pl_files>>
app == <<ap_request, ap_files, ap_pipeline, ap_exc>>
watchdog == <<wd_tasks, wd_threads, wd_clock, wd_stop, wd_mon, wd_calls, wd_dicts>>
other == <<unique, scoring, pipeline, app, watchdog>>
vars == <<history, default, raw_data, monthly_payment, retries, base_delay, backoff, attempt, delay, slept,
          outcomes, fret,
          ret, pc, df, colmap, txns, cashflow, balances, counterparties, other>>

\* safe_run(retries=2, base_delay=1.0, backoff=2.0, default={}) of parse
ParseRetries == 2
ParseBaseDelay == 1
ParseBackoff == 2

Unset == <<>>
NotReturned == [kind |-> "running"]

InitHandler ==
    /\ attempt = 0
    /\ delay = base_delay
    /\ slept = <<>>
    /\ outcomes = <<>>
    /\ fret = Unset
    /\ ret = NotReturned
    /\ pc = "loop"
InitLocals ==
    /\ df = Unset /\ colmap = Unset /\ txns = Unset
    /\ cashflow = Unset /\ balances = Unset /\ counterparties = Unset
\* _make_unique_headers is not called
IdleUnique == mu_headers = <<>> /\ mu_n = 0 /\ mu_res = Unset
\* score is not called
IdleScoring == sc_values = <<>> /\ sc_result = Unset
\* run_pipeline is not called
IdlePipeline ==
    /\ pl_docs = <<>> /\ pl_results = <<>> /\ pl_report = Unset /\ pl_pc = "idle"
    /\ pl_env = [exports |-> {}, stdout |-> "utf-8"] /\ pl_files = {}
\* no request is handled
IdleApp ==
    /\ ap_request = Unset /\ ap_files = {} /\ ap_exc = Unset
    /\ ap_pipeline = [outcome |-> "idle", exports |-> {}]
\* the Watchdog has no task
IdleWatchdog ==
    /\ wd_tasks = <<>> /\ wd_threads = <<>> /\ wd_clock = 1 /\ wd_stop = FALSE
    /\ wd_mon = [pc |-> "test", now |-> 0, items |-> <<>>] /\ wd_calls = <<>> /\ wd_dicts = 0
\* nothing but the parser runs
IdleOther == IdleUnique /\ IdleScoring /\ IdlePipeline /\ IdleApp /\ IdleWatchdog

\* a call parser.parse(raw_data, monthly_payment)
Init ==
    /\ history = <<>>
    /\ default = Some(EmptyDict)
    /\ raw_data \in Payloads
    /\ monthly_payment \in Payments
    /\ retries = ParseRetries
    /\ base_delay = ParseBaseDelay
    /\ backoff = ParseBackoff
    /\ InitHandler
    /\ InitLocals
    /\ IdleOther

(***************************************************************************)
(* ErrorHandler.run                                                        *)
(***************************************************************************)
\* the loop with one attempt too many: range(1, self.retries + 2)
RunLoopExtraAttempt ==
    /\ pc = "loop"
    /\ IF attempt + 1 <= retries + 1
       THEN /\ attempt' = attempt + 1
            /\ pc' = "call"
            /\ ret' = ret
       ELSE /\ attempt' = attempt
            /\ pc' = "done"
            /\ ret' = [kind |-> "none"]
    /\ df' = Unset /\ colmap' = Unset /\ txns' = Unset
    /\ cashflow' = Unset /\ balances' = Unset /\ counterparties' = Unset
    /\ UNCHANGED <<history, default, raw_data, monthly_payment, retries, base_delay, backoff, delay, slept,
                   outcomes, fret>>
    /\ UNCHANGED other

\* for attempt in range(1, self.retries + 1): the next attempt is invoked,
\* or the loop ends and run returns None
RunLoop ==
    /\ pc = "loop"
    /\ IF attempt + 1 <= retries
       THEN /\ attempt' = attempt + 1
            /\ pc' = "call"
            /\ ret' = ret
       ELSE /\ attempt' = attempt
            /\ pc' = "done"
            /\ ret' = [kind |-> "none"]
    /\ df' = Unset /\ colmap' = Unset /\ txns' = Unset
    /\ cashflow' = Unset /\ balances' = Unset /\ counterparties' = Unset
    /\ UNCHANGED <<history, default, raw_data, monthly_payment, retries, base_delay, backoff, delay, slept,
                   outcomes, fret>>
    /\ UNCHANGED other

\* return result
RunReturn ==
    /\ pc = "returned"
    /\ outcomes' = Append(outcomes, "returned")
    /\ ret' = [kind |-> "result", val |-> fret]
    /\ pc' = "done"
    /\ UNCHANGED <<history, default, raw_data, monthly_payment, retries, base_delay, backoff, attempt, delay,
                   slept, fret>>
    /\ UNCHANGED locals
    /\ UNCHANGED other

\* the handler with a raise after the last attempt in place of return default
RunExceptReraise ==
    /\ pc = "raised"
    /\ outcomes' = Append(outcomes, "raised")
    /\ IF attempt < retries
       THEN /\ slept' = Append(slept, delay)
            /\ delay' = delay * backoff
            /\ pc' = "loop"
            /\ ret' = ret
       ELSE /\ slept' = slept
            /\ delay' = delay
            /\ pc' = "done"
            /\ ret' = [kind |-> "exception"]
    /\ UNCHANGED <<history, default, raw_data, monthly_payment, retries, base_delay, backoff, attempt, fret>>
    /\ UNCHANGED locals
    /\ UNCHANGED other

\* except Exception: sleep and go on, or return default after the last attempt
RunExcept ==
    /\ pc = "raised"
    /\ outcomes' = Append(outcomes, "raised")
    /\ IF attempt < retries
       THEN /\ slept' = Append(slept, delay)
            /\ delay' = delay * backoff
            /\ pc' = "loop"
            /\ ret' = ret
       ELSE /\ slept' = slept
            /\ delay' = delay
            /\ pc' = "done"
            /\ ret' = [kind |-> "default", val |-> default]
    /\ UNCHANGED <<history, default, raw_data, monthly_payment, retries, base_delay, backoff, attempt, fret>>
    /\ UNCHANGED locals
    /\ UNCHANGED other

(***************************************************************************)
(* Card51Parser.parse, statement by statement                              *)
(***************************************************************************)
ToDataframe ==
    /\ pc = "call"
    /\ df' = _to_dataframe(raw_data)
    /\ pc' = "normalize"
    /\ UNCHANGED <<history, default, raw_data, monthly_payment, fret, colmap, txns, cashflow, balances,
                   counterparties>>
    /\ UNCHANGED handler
    /\ UNCHANGED other

NormalizeAndMapColumns ==
    /\ pc = "normalize"
    /\ \E r \in {_normalize_and_map_columns(df)} :
          IF r.raised
          THEN pc' = "raised" /\ df' = df /\ colmap' = colmap
          ELSE pc' = "extract" /\ df' = r.df /\ colmap' = r.colmap
    /\ UNCHANGED <<history, default, raw_data, monthly_payment, fret, txns, cashflow, balances,
                   counterparties>>
    /\ UNCHANGED handler
    /\ UNCHANGED other

ExtractTransactions ==
    /\ pc = "extract"
    /\ txns' = _extract_transactions(df, colmap)
    /\ pc' = "cashflow"
    /\ UNCHANGED <<history, default, raw_data, monthly_payment, fret, df, colmap, cashflow, balances,
                   counterparties>>
    /\ UNCHANGED handler
    /\ UNCHANGED other

AnalyzeCashflow ==
    /\ pc = "cashflow"
    /\ cashflow' = _analyze_cashflow(txns)
    /\ pc' = "balances"
    /\ UNCHANGED <<history, default, raw_data, monthly_payment, fret, df, colmap, txns, balances,
                   counterparties>>
    /\ UNCHANGED handler
    /\ UNCHANGED other

AnalyzeBalances ==
    /\ pc = "balances"
    /\ balances' = _analyze_balances(txns, colmap, monthly_payment)
    /\ pc' = "counterparties"
    /\ UNCHANGED <<history, default, raw_data, monthly_payment, fret, df, colmap, txns, cashflow,
                   counterparties>>
    /\ UNCHANGED handler
    /\ UNCHANGED other

AnalyzeCounterparties ==
    /\ pc = "counterparties"
    /\ counterparties' = _analyze_counterparties(txns, cashflow)
    /\ pc' = "return"
    /\ UNCHANGED <<history, default, raw_data, monthly_payment, fret, df, colmap, txns, cashflow, balances>>
    /\ UNCHANGED handler
    /\ UNCHANGED other

\* return {"columns": colmap, "transactions": txns, ...}
ParseReturn ==
    /\ pc = "return"
    /\ fret' = [columns |-> colmap, transactions |-> txns, cashflow |-> cashflow,
                balances |-> balances, counterparties |-> counterparties]
    /\ pc' = "returned"
    /\ UNCHANGED <<history, default, raw_data, monthly_payment>>
    /\ UNCHANGED locals
    /\ UNCHANGED handler
    /\ UNCHANGED other

Next ==
    \/ RunLoop \/ RunReturn \/ RunExcept
    \/ ToDataframe \/ NormalizeAndMapColumns \/ ExtractTransactions
    \/ AnalyzeCashflow \/ AnalyzeBalances \/ AnalyzeCounterparties \/ ParseReturn

Spec == Init /\ [][Next]_vars

(***************************************************************************)
(* ErrorHandler.run around an arbitrary function: every invocation either  *)
(* returns one of the values of Results or raises an Exception.  The       *)
(* delays handed to time.sleep are non-negative (base_delay >= 0 and       *)
(* backoff > 0), as in every use of safe_run in the repository.            *)
(***************************************************************************)
Results == {"r1", "r2"}
BaseDelays == {0, 1}
Backoffs == {1, 2}

\* ErrorHandler(retries, base_delay, backoff).run(func, default=default): the
\* caller leaves default out (None) or passes a value
InitRun ==
    /\ history = <<>>
    /\ default \in {None, Some(EmptyDict)}
    /\ raw_data = Unset
    /\ monthly_payment = FZero
    /\ retries \in 0..MaxRetries
    /\ base_delay \in BaseDelays
    /\ backoff \in Backoffs
    /\ InitHandler
    /\ InitLocals
    /\ IdleOther

\* result = func(*args, **kwargs) returns
FuncReturns ==
    /\ pc = "call"
    /\ \E v \in Results : fret' = v
    /\ pc' = "returned"
    /\ UNCHANGED <<history, default, raw_data, monthly_payment>>
    /\ UNCHANGED locals
    /\ UNCHANGED handler
    /\ UNCHANGED other

\* result = func(*args, **kwargs) raises an Exception
FuncRaises ==
    /\ pc = "call"
    /\ pc' = "raised"
    /\ UNCHANGED <<history, default, raw_data, monthly_payment, fret>>
    /\ UNCHANGED locals
    /\ UNCHANGED handler
    /\ UNCHANGED other

NextRun == RunLoop \/ RunReturn \/ RunExcept \/ FuncReturns \/ FuncRaises

\* run is sequential code: a statement that can run does run, and the wrapped
\* function is taken to end (by returning or by raising)
SpecRun == InitRun /\ [][NextRun]_vars /\ WF_vars(NextRun)

(***************************************************************************)
(* Several calls of parse, one after the other.  The wrapper of safe_run   *)
(* builds a new ErrorHandler for every call and parse keeps nothing on the *)
(* parser; the value of default is evaluated once, where parse is          *)
(* decorated, and every call that exhausts its attempts returns that one   *)
(* dict, which its caller is free to write to as to any returned dict.     *)
(***************************************************************************)
CallRows ==
    <<RowOf(StrCell(D1501), NumCell(100 * Unit), NaNCell, NaNCell,
            StrCell(NameRomashka), StrCell(TextPayment)),
      RowOf(StrCell(D0101), NaNCell, NumCell(40 * Unit), NumCell(500 * Unit),
            NaNCell, StrCell(TextInn))>>
\* the payloads of the calls: raw text, empty text, a grid that makes parse
\* raise, a grid with a header and two rows
CallPayloads ==
    {TextPayload(Join(<<LineDebitLegal, LineCredit>>, <<10>>)),
     TextPayload(<<>>),
     GridPayload(2, <<>>),
     GridPayload(6, <<HeaderRow(FullLayout), DataRow(FullLayout, CallRows[1]),
                      DataRow(FullLayout, CallRows[2])>>)}
\* the keys a caller stores in the dict it got back: "x" and "y"
CallerKeys == {<<120>>, <<121>>}

InitCalls ==
    /\ history = <<>>
    /\ default = Some(EmptyDict)
    /\ raw_data \in CallPayloads
    /\ monthly_payment \in Payments
    /\ retries = ParseRetries
    /\ base_delay = ParseBaseDelay
    /\ backoff = ParseBackoff
    /\ InitHandler
    /\ InitLocals
    /\ IdleOther

\* the caller takes the value of the call that ended and calls parse again:
\* wrapper builds ErrorHandler(retries, base_delay, backoff) and runs it with
\* default=default, the object of the closure
NextCall ==
    /\ pc = "done"
    /\ Len(history) + 1 < MaxCalls
    /\ history' = Append(history, [raw_data |-> raw_data,
                                   monthly_payment |-> monthly_payment, ret |-> ret])
    /\ raw_data' \in CallPayloads
    /\ monthly_payment' \in Payments
    /\ attempt' = 0
    /\ delay' = base_delay
    /\ slept' = <<>> /\ outcomes' = <<>>
    /\ fret' = Unset /\ ret' = NotReturned
    /\ pc' = "loop"
    /\ UNCHANGED <<default, retries, base_delay, backoff>>
    /\ UNCHANGED locals
    /\ UNCHANGED other

\* the caller stores a key in the dict the call returned: result[k] = 1, on
\* the object of the closure when the call returned default
CallerStores ==
    /\ pc = "done"
    /\ ret.kind = "default"
    /\ ~IsNone(default)
    /\ \E k \in CallerKeys \ DOMAIN Val(default) :
          default' = Some([x \in DOMAIN Val(default) \cup {k} |->
                              IF x = k THEN 1 ELSE Val(default)[x]])
    /\ UNCHANGED <<history, raw_data, monthly_payment, fret, pc>>
    /\ UNCHANGED handler
    /\ UNCHANGED locals
    /\ UNCHANGED other

NextCalls == Next \/ NextCall \/ CallerStores
SpecCalls == InitCalls /\ [][NextCalls]_vars

\* C11: parse is deterministic and keeps no state between calls: two calls
\* with equal payload and equal monthly_payment, whatever calls of parse lie
\* between them, return equal values, the role map and the order of the
\* transactions included.
C11_EqualInputEqualResult ==
    pc = "done" =>
        \A i \in 1..Len(history) :
            (history[i].raw_data = raw_data /\ history[i].monthly_payment = monthly_payment)
                => history[i].ret = ret

(***************************************************************************)
(* Card51Parser._make_unique_headers called on its own                     *)
(***************************************************************************)
\* the parser and its handler, at rest
parser == <<history, default, raw_data, monthly_payment, fret, pc, handler, locals>>
IdleParser ==
    /\ history = <<>>
    /\ default = Some(EmptyDict)
    /\ raw_data = Unset
    /\ monthly_payment = FZero
    /\ retries = ParseRetries
    /\ base_delay = ParseBaseDelay
    /\ backoff = ParseBackoff
    /\ InitHandler
    /\ InitLocals

\* header cells: "", "a", "a_1", "col_1"
HeaderCells == {<<>>, <<97>>, <<97, 95, 49>>, <<99, 111, 108, 95, 49>>}

InitUnique ==
    /\ IdleParser
    /\ IdleScoring
    /\ IdlePipeline
    /\ IdleApp
    /\ IdleWatchdog
    /\ mu_headers \in SeqsUpTo(HeaderCells, MaxHeaders)
    /\ mu_n \in 0..MaxCols
    /\ mu_res = Unset

\* res = Card51Parser._make_unique_headers(headers, n); headers[i] of a row
\* shorter than n is guarded by the code (i < len(headers))
MakeUniqueHeaders ==
    /\ mu_res = Unset
    /\ mu_res' = Some(_make_unique_headers(mu_headers, mu_n))
    /\ UNCHANGED <<mu_headers, mu_n>>
    /\ UNCHANGED <<parser, scoring, pipeline, app, watchdog>>

NextUnique == MakeUniqueHeaders
SpecUnique == InitUnique /\ [][NextUnique]_vars

\* C23: header normalization yields pairwise distinct column names:
\* _make_unique_headers(headers, n) returns n names without a duplicate for
\* every header list, with empty, missing or repeated names and with names
\* of the form name_k.
C23_UniqueHeaders ==
    mu_res # Unset =>
        /\ Len(Val(mu_res)) = mu_n
        /\ \A i, j \in 1..mu_n : i # j => Val(mu_res)[i] # Val(mu_res)[j]

(***************************************************************************)
(* ScoringModel.score.  Metric values are integers in thousandths; the     *)
(* weights 1, 1.5 and 2 and every score are kept in half points.           *)
(***************************************************************************)
HalfPoints == 2
\* a threshold (lambda v: ..., pts): the range lo..hi with open or closed
\* ends, None for an end that is not tested
Range(lo, lo_open, hi, hi_open, pts) ==
    [lo |-> lo, lo_open |-> lo_open, hi |-> hi, hi_open |-> hi_open, pts |-> pts]
Below(x, pts) == Range(None, FALSE, Some(x), TRUE, pts)          \* v < x
UpTo(x, pts) == Range(None, FALSE, Some(x), FALSE, pts)          \* v <= x
Above(x, pts) == Range(Some(x), TRUE, None, FALSE, pts)          \* v > x
From(x, pts) == Range(Some(x), FALSE, None, FALSE, pts)          \* v >= x
Between(x, y, pts) == Range(Some(x), FALSE, Some(y), TRUE, pts)  \* x <= v < y
Within(x, y, pts) == Range(Some(x), FALSE, Some(y), FALSE, pts)  \* x <= v <= y
Inside(x, y, pts) == Range(Some(x), TRUE, Some(y), TRUE, pts)    \* x < v < y
\* rng(value)
InRange(r, v) ==
    /\ IsNone(r.lo) \/ Val(r.lo) < v \/ (~r.lo_open /\ Val(r.lo) = v)
    /\ IsNone(r.hi) \/ v < Val(r.hi) \/ (~r.hi_open /\ Val(r.hi) = v)

\* the calls of score_metric in the order of the code: the key of the
\* scorecard, the block of results the value is read from, the weight in
\* half points, whether the key contains "DSCR" or "Retro PD", the thresholds
Metric(name, block, weight, critical, thresholds) ==
    [name |-> name, block |-> block, weight |-> weight, critical |-> critical,
     thresholds |-> thresholds]
Metrics ==
    <<Metric("DSCR", "cashflow", 4, TRUE,
             <<Below(1000, 0), Between(1000, 1200, 1), From(1200, 2)>>),
      Metric("Retro PD", "retro", 4, TRUE,
             <<Above(500, 0), Within(200, 500, 1), Below(200, 2)>>),
      Metric("Current Ratio", "financials", 3, FALSE,
             <<Below(1000, 0), Between(1000, 1500, 1), From(1500, 2)>>),
      Metric("Absolute Liquidity", "balance", 2, FALSE,
             <<Below(200, 0), Between(200, 500, 1), From(500, 2)>>),
      Metric("Equity Ratio", "balance", 3, FALSE,
             <<Below(200, 0), Between(200, 400, 1), From(400, 2)>>),
      Metric("DSO", "receivables", 3, FALSE,
             <<Above(90000, 0), Within(60000, 90000, 1), Below(60000, 2)>>),
      Metric("DPO", "payables", 3, FALSE,
             <<Above(120000, 0), Within(60000, 120000, 1), Below(60000, 2)>>),
      Metric("Gross Margin", "financials", 2, FALSE,
             <<Below(200, 0), Between(200, 300, 1), From(300, 2)>>),
      Metric("EBITDA Margin", "financials", 2, FALSE,
             <<Below(100, 0), Between(100, 150, 1), From(150, 2)>>),
      Metric("Net Margin", "financials", 2, FALSE,
             <<UpTo(0, 0), Inside(0, 100, 1), From(100, 2)>>),
      Metric("ROE", "financials", 2, FALSE,
             <<Below(50, 0), Between(50, 100, 1), From(100, 2)>>),
      Metric("ROA", "financials", 2, FALSE,
             <<Below(20, 0), Between(20, 50, 1), From(50, 2)>>),
      Metric("Burn-rate", "cashflow", 2, FALSE,
             <<Below(3000, 0), Between(3000, 6000, 1), From(6000, 2)>>)>>

\* score_metric: (pts * weight, pts) of the first threshold the value is in,
\* (0, 0) for a missing value and for a value in no range
score_metric(value, thresholds, weight) ==
    IF IsNone(value) THEN <<0, 0>>
    ELSE LET hit == {k \in 1..Len(thresholds) : InRange(thresholds[k], Val(value))}
         IN  IF hit = {} THEN <<0, 0>>
             ELSE <<thresholds[CHOOSE k \in hit : \A j \in hit : k <= j].pts * weight,
                    thresholds[CHOOSE k \in hit : \A j \in hit : k <= j].pts>>

RECURSIVE SumScores(_, _)
\* sum(sc for sc, raw in scorecard.values())
SumScores(scorecard, k) ==
    IF k = 0 THEN 0 ELSE SumScores(scorecard, k - 1) + scorecard[k][1]
RECURSIVE MaxScore(_)
\* sum(2 * (2 if "DSCR" in k or "Retro PD" in k else 1) for k in scorecard)
MaxScore(k) ==
    IF k = 0 THEN 0
    ELSE MaxScore(k - 1) + 2 * (IF Metrics[k].critical THEN 2 ELSE 1) * HalfPoints
\* the class of the total: the tests total <= max * 0.33 and <= max * 0.66
RiskClass(total, max) ==
    IF total * 100 <= max * 33 THEN "high"
    ELSE IF total * 100 <= max * 66 THEN "medium" ELSE "low"
\* the dict score returns; PD = 1 - total / max is the fraction
\* <<max - total, max>>
ScoreOf(scorecard) ==
    [scorecard |-> scorecard,
     total_score |-> SumScores(scorecard, Len(scorecard)),
     max_score |-> MaxScore(Len(scorecard)),
     PD |-> IF MaxScore(Len(scorecard)) > 0
            THEN Some(<<MaxScore(Len(scorecard)) - SumScores(scorecard, Len(scorecard)),
                        MaxScore(Len(scorecard))>>)
            ELSE None,
     risk_class |-> RiskClass(SumScores(scorecard, Len(scorecard)), MaxScore(Len(scorecard)))]
ScoringModel_score(values) ==
    ScoreOf([k \in 1..Len(Metrics) |->
                score_metric(values[k], Metrics[k].thresholds, Metrics[k].weight)])

\* the blocks of results and the states of a block: missing, or with every
\* metric of the block in its worst, middle or best range
Blocks == {"cashflow", "retro", "financials", "balance", "receivables", "payables"}
BlockStates == {"missing", "worst", "middle", "best"}
\* a value of the metric in the range with the points of the block state
SampleValue(m, state) ==
    LET pts == CASE state = "worst" -> 0 [] state = "middle" -> 1 [] OTHER -> 2
        r == m.thresholds[CHOOSE k \in 1..Len(m.thresholds) : m.thresholds[k].pts = pts]
    IN  IF state = "missing" THEN None
        ELSE IF ~IsNone(r.lo) /\ ~r.lo_open THEN r.lo
        ELSE IF ~IsNone(r.hi) /\ ~r.hi_open THEN r.hi
        ELSE IF ~IsNone(r.lo) THEN Some(Val(r.lo) + 1)
        ELSE Some(Val(r.hi) - 1)
\* results.get(block, {})...get(metric) for every metric
ValuesOf(results) == [k \in 1..Len(Metrics) |-> SampleValue(Metrics[k], results[Metrics[k].block])]

InitScoring ==
    /\ IdleParser
    /\ IdleUnique
    /\ IdlePipeline
    /\ IdleApp
    /\ IdleWatchdog
    /\ sc_values \in {ValuesOf(r) : r \in [Blocks -> BlockStates]}
    /\ sc_result = Unset

\* ScoringModel().score(results)
Score ==
    /\ sc_result = Unset
    /\ sc_result' = Some(ScoringModel_score(sc_values))
    /\ UNCHANGED sc_values
    /\ UNCHANGED <<parser, unique, pipeline, app, watchdog>>

NextScoring == Score
SpecScoring == InitScoring /\ [][NextScoring]_vars

\* C27: ScoringModel.score yields total_score <= max_score and hence
\* 0 <= PD <= 1 for every combination of metric values, all metrics in their
\* best range included.
C27_TotalWithinMax ==
    sc_result # Unset =>
        /\ Val(sc_result).total_score <= Val(sc_result).max_score
        /\ Val(Val(sc_result).PD)[1] >= 0
        /\ Val(Val(sc_result).PD)[1] <= Val(Val(sc_result).PD)[2]

(***************************************************************************)
(* Properties of the result of Card51Parser.parse                          *)
(***************************************************************************)
\* parse returned its result dictionary to the caller
Returned == pc = "done" /\ ret.kind = "result"
\* the wrapper returned its default value to the caller
Defaulted == pc = "done" /\ ret.kind = "default"
\* the frame of the last attempt came from a single column or from raw text
SingleColumn == df # Unset /\ Len(df.columns) = 1
AllNull(t) ==
    /\ IsNone(t.date) /\ IsNone(t.debit) /\ IsNone(t.credit)
    /\ IsNone(t.balance) /\ IsNone(t.counterparty) /\ IsNone(t.description)
\* l is ordered by date, the transactions without a date first
SortedNullFirst(l) ==
    \A i, j \in 1..Len(l) :
        i < j => /\ DateLeq(SortKey(l[i]), SortKey(l[j]))
                 /\ (IsNone(l[j].date) => IsNone(l[i].date))

RECURSIVE InOrderSum(_)
\* the sum of the floats f[i], added one by one in ascending order of the
\* index i to the start value 0, as sum() and += add them
InOrderSum(f) ==
    IF DOMAIN f = {} THEN FZero
    ELSE LET m == MaxOf(DOMAIN f)
         IN  FAdd(InOrderSum([i \in DOMAIN f \ {m} |-> f[i]]), f[m])
RECURSIVE Accumulated(_, _)
\* b + (debit or 0) - (credit or 0) taken row after row over the list l, each
\* addition and subtraction a float operation
Accumulated(b, l) ==
    IF Len(l) = 0 THEN b
    ELSE FSub(FAdd(Accumulated(b, SubSeq(l, 1, Len(l) - 1)), OrZero(l[Len(l)].debit)),
              OrZero(l[Len(l)].credit))
\* the float x is a whole number
IsWhole(x) == FIsZero(x) \/ x.e >= 0 \/ ~BLowNonzero(x.m, -x.e)
\* the transactions without a date, by index
Undated == {i \in 1..Len(txns) : IsNone(txns[i].date)}
\* the sum of the field over the transactions with index in is, nulls as 0,
\* taken in list order
SumAt(is, field) == InOrderSum([i \in is |-> OrZero(txns[i][field])])
\* every amount of the field is a whole number
AllWhole(field) == \A i \in 1..Len(txns) : IsWhole(OrZero(txns[i][field]))

\* C1: for every input parse accepts (grid of several columns, grid of one
\* column, raw text) the returned transactions are in non-decreasing order of
\* date, every transaction without a date before all the dated ones.
C1_SortedByDate == Returned => SortedNullFirst(ret.val.transactions)

\* C2: no transaction of the list parse returns has all six fields (date,
\* debit, credit, balance, counterparty, description) null, on the tabular and
\* on the single-column path.
C2_NoAllNullTransaction ==
    Returned => \A i \in 1..Len(ret.val.transactions) : ~AllNull(ret.val.transactions[i])
\* a grid of several columns one row of which yields six nulls, and another
\* row of which is returned
C2_AllNullRowDropped ==
    /\ Returned /\ ~SingleColumn
    /\ \E i \in 1..Len(df.rows) : AllNull(RowTxn(df, colmap, i))
    /\ Len(ret.val.transactions) > 0

\* the fields lexed from row i of the frame, before any row is dropped
FieldsOfRow(i) ==
    IF Len(df.columns) = 1 /\ df.columns[1] = RawName
    THEN LineTxn(CellStr(df.rows[i][1]))
    ELSE RowTxn(df, colmap, i)
\* C12: extraction drops a row or a line only if all six fields are null:
\* every row with at least one non-null field (only a description, or only an
\* amount equal to 0, included) is in the output, and a cell that fails
\* numeric or date lexing nulls that field alone.
C12_OnlyAllNullDropped ==
    Returned =>
        Len(ret.val.transactions)
            = Cardinality({i \in 1..Len(df.rows) : ~AllNull(FieldsOfRow(i))})

\* the payload has no row: empty or blank text, or a grid without rows
EmptyInput == Len(_to_dataframe(raw_data).rows) = 0

\* C3: parsing an empty input (empty text, a grid without rows of one or of
\* several columns) raises nothing and returns a result whose transactions
\* list is empty and whose cash_in, cash_out and delta are 0.
C3_EmptyInputEmptyResult ==
    (pc = "done" /\ EmptyInput) =>
        /\ ret.kind = "result"
        /\ ret.val.transactions = <<>>
        /\ FEq(ret.val.cashflow.cash_in, FZero)
        /\ FEq(ret.val.cashflow.cash_out, FZero)
        /\ FEq(ret.val.cashflow.delta, FZero)

\* the balance fold has run in the current attempt
Folded == balances # Unset
NoDeclaredBalance(l) == \A i \in 1..Len(l) : IsNone(l[i].balance)
Dated(l) == SelectSeq(l, LAMBDA t : ~IsNone(t.date))
\* the latest date among the dated transactions of l
LatestDate(l) ==
    CHOOSE d \in {Val(Dated(l)[i].date) : i \in 1..Len(Dated(l))} :
        \A i \in 1..Len(Dated(l)) : DateLeq(Val(Dated(l)[i].date), d)

\* opening + (sum of debit) - (sum of credit) over the transactions with
\* index in is
OpeningPlusNet(is) ==
    FSub(FAdd(balances.opening, SumAt(is, "debit")), SumAt(is, "credit"))

Before(i) == IF i = 1 THEN balances.opening ELSE balances.running[i - 1]
\* only the first transaction declares a balance
OnlyFirstDeclares(l) ==
    /\ Len(l) > 0 /\ ~IsNone(l[1].balance)
    /\ \A i \in 2..Len(l) : IsNone(l[i].balance)

\* C5: in the balance fold the running value after a transaction with a
\* declared balance is that balance, whatever the previous running value and
\* the row's debit and credit; after a transaction without one it is the
\* previous running value + (debit or 0) - (credit or 0).  Hence when only the
\* first row declares a balance B, every later entry is B with the deltas of
\* the later rows accumulated on it, row after row.
C5_DeclaredBalanceOverrides ==
    Folded =>
        /\ \A i \in 1..Len(txns) :
              FEq(balances.running[i],
                  IF ~IsNone(txns[i].balance) THEN Val(txns[i].balance)
                  ELSE FSub(FAdd(Before(i), OrZero(txns[i].debit)), OrZero(txns[i].credit)))
        /\ OnlyFirstDeclares(txns) =>
              \A i \in 2..Len(txns) :
                 FEq(balances.running[i],
                     Accumulated(Val(txns[1].balance), SubSeq(txns, 2, i)))
\* a declared balance replaces a different running value on a row that also
\* has an amount, and a later row accumulates on it
C5_OverrideThenAccumulate ==
    /\ Folded /\ OnlyFirstDeclares(txns) /\ Len(txns) >= 2
    /\ TruthyNum(txns[1].credit)
    /\ ~FEq(Val(txns[1].balance), FSub(Before(1), Val(txns[1].credit)))
    /\ TruthyNum(txns[2].debit)
    /\ ~FEq(balances.running[2], Val(txns[1].balance))
    /\ FEq(balances.running[2], FAdd(Val(txns[1].balance), Val(txns[2].debit)))

(***************************************************************************)
(* Properties of ErrorHandler.run                                          *)
(***************************************************************************)
AllRaised == \A i \in 1..Len(outcomes) : outcomes[i] = "raised"
HasReturned == \E i \in 1..Len(outcomes) : outcomes[i] = "returned"

\* C6: if every attempt of a function run through ErrorHandler.run raises an
\* exception, the call returns the configured default value and no exception
\* reaches the caller.
C6_AllRaisedReturnsDefault ==
    (pc = "done" /\ Len(outcomes) > 0 /\ AllRaised) => ret = [kind |-> "default", val |-> default]
\* a run of several attempts that all raised and that ended with the default
C6_ExhaustedRun ==
    /\ pc = "done" /\ Len(outcomes) >= 2 /\ AllRaised
    /\ Len(slept) = Len(outcomes) - 1
    /\ ret.kind = "default"

\* the function is invoked at most retries times; once an invocation has
\* returned, run has ended with that value and invoked nothing after it
StopsAtFirstSuccess ==
    /\ attempt <= retries
    /\ Len(outcomes) <= attempt
    /\ HasReturned =>
          /\ pc = "done"
          /\ ret = [kind |-> "result", val |-> fret]
          /\ attempt = Len(outcomes)
          /\ \A i \in 1..Len(outcomes) : outcomes[i] = "returned" <=> i = Len(outcomes)

\* C7: ErrorHandler.run always terminates, invokes the wrapped function at
\* most retries times and stops at the first attempt that returns without
\* raising: it returns that attempt's result and invokes nothing further.
C7_TerminatesAndStopsAtFirstSuccess == <>(pc = "done") /\ []StopsAtFirstSuccess
\* a run whose first attempt raised and whose second returned, with a third
\* attempt left unused
C7_SuccessOnSecondAttempt ==
    /\ pc = "done" /\ retries >= 3
    /\ outcomes = <<"raised", "returned">>
    /\ ret = [kind |-> "result", val |-> fret]

(***************************************************************************)
(* Properties of the single-column path, the stress test and the           *)
(* counterparty cascade                                                    *)
(***************************************************************************)
Normalized == colmap # Unset
Extracted == txns # Unset
\* _extract_transactions has just returned
JustExtracted == pc = "cashflow"

\* C8: for a single-column input (a grid of one column or raw text) the role
\* map leaves date, debit, credit, balance and counterparty unresolved and
\* maps description to the raw column; no header search runs, so every
\* non-empty line is a data row, and every transaction has a null balance.
C8_SingleColumnFreeText ==
    (SingleColumn /\ Normalized) =>
        /\ colmap = [date |-> None, debit |-> None, credit |-> None, balance |-> None,
                     counterparty |-> None, description |-> Some(RawName)]
        /\ df.columns = <<RawName>>
        /\ df.rows = _to_dataframe(raw_data).rows
        /\ Extracted => \A i \in 1..Len(txns) : IsNone(txns[i].balance)
\* raw text whose first line reads like a header (two header keywords) and is
\* returned as the first transaction
C8_HeaderLikeLineIsData ==
    /\ Returned /\ SingleColumn /\ raw_data.kind = "text"
    /\ Len(df.rows) >= 2
    /\ HeaderHits(df.rows[1]) >= 2
    /\ Len(ret.val.transactions) >= 2
    /\ ret.val.transactions[1].description = Some(CellStr(df.rows[1][1]))

\* C9: the stress test has an entry for period key m exactly when a payment
\* > 0 was supplied and m is a key of by_month_end; each entry has
\* end_balance_after_payment = b - payment, shortfall = max(0, -after) >= 0 and
\* default_risk true exactly when after < 0, that is when shortfall > 0.
C9_StressTestEntries ==
    Folded =>
        /\ DOMAIN balances.stress_test =
              IF FLess(FZero, monthly_payment) THEN DOMAIN balances.summary.by_month_end
              ELSE {}
        /\ \A m \in DOMAIN balances.stress_test :
              LET e == balances.stress_test[m]
                  after == e.end_balance_after_payment
              IN  /\ FEq(after, FSub(balances.summary.by_month_end[m], monthly_payment))
                  /\ FEq(e.shortfall,
                         IF FLess(FZero, FNeg(after)) THEN FNeg(after) ELSE FZero)
                  /\ ~FLess(e.shortfall, FZero)
                  /\ e.default_risk = FLess(after, FZero)
                  /\ e.default_risk = FLess(FZero, e.shortfall)
\* a stress test with a period that falls short of the payment, by less than
\* the payment, and a period that does not fall short
C9_ShortfallAndNoShortfall ==
    /\ Folded /\ FLess(FZero, monthly_payment)
    /\ \E m1, m2 \in DOMAIN balances.stress_test :
          /\ balances.stress_test[m1].default_risk
          /\ FLess(FZero, balances.stress_test[m1].shortfall)
          /\ FLess(balances.stress_test[m1].shortfall, monthly_payment)
          /\ ~balances.stress_test[m2].default_risk
          /\ FIsZero(balances.stress_test[m2].shortfall)

\* a token of n digits starts at p: n digits between two non-word characters
\* (or the ends of the text)
IdTokenAt(t, p, n) ==
    /\ p + n - 1 <= Len(t)
    /\ \A k \in p..(p + n - 1) : IsDigit(t[k])
    /\ ~IsWord(At(t, p - 1))
    /\ ~IsWord(At(t, p + n))
HasIdToken(t) == \E p \in 1..Len(t) : IdTokenAt(t, p, 10) \/ IdTokenAt(t, p, 12)
\* the leftmost token of 10 or 12 digits
FirstIdToken(t) ==
    LET p == CHOOSE q \in 1..Len(t) :
                /\ IdTokenAt(t, q, 10) \/ IdTokenAt(t, q, 12)
                /\ \A r \in 1..(q - 1) : ~(IdTokenAt(t, r, 10) \/ IdTokenAt(t, r, 12))
    IN  SubSeq(t, p, p + (IF IdTokenAt(t, p, 10) THEN 10 ELSE 12) - 1)
\* a legal-entity prefix occurs somewhere in the text, in any case
HasLegalPrefix(t) ==
    \E k \in 1..Len(LegalPrefixes) : Contains(Lower(t), Lower(LegalPrefixes[k]))
\* what the cascade yields for text t when the taxpayer number is labelled label
Cascade(label, t) ==
    IF HasIdToken(t) THEN Some(label \o FirstIdToken(t)) ELSE LegalStrategy(t)

\* C10: a text with a 10- or 12-digit token yields the label "ID <digits>"
\* for it, also when a legal-entity prefix occurs in the text; the
\* legal-entity span is returned only when there is no such token, and null
\* when neither matches.
C10_CascadeLabelID ==
    (SingleColumn /\ JustExtracted) =>
        \A i \in 1..Len(txns) :
            txns[i].counterparty = Cascade(<<73, 68, 32>>, Val(txns[i].description))


\* no header of the normalized frame has a balance keyword
NoBalanceHeader ==
    \A j \in 1..Len(df.columns) : ~ContainsAny(Lower(df.columns[j]), KwBalance)
\* the running values are opening + the debits - the credits so far
Cumulative(l, b) ==
    \A i \in 1..Len(l) : FEq(b.running[i], Accumulated(b.opening, SubSeq(l, 1, i)))
\* C13: when the frame has no explicit balance column (no header with a
\* balance keyword), no transaction gets a declared balance and the balances
\* are cumulative: the opening balance plus the debits minus the credits.
C13_NoBalanceHeaderCumulative ==
    (Returned /\ NoBalanceHeader) =>
        /\ NoDeclaredBalance(ret.val.transactions)
        /\ Cumulative(ret.val.transactions, balances)


\* the keyword lists of the roles, in the order of _infer_roles
RoleKeywords ==
    [date |-> KwDate, debit |-> KwDebit, credit |-> KwCredit, balance |-> KwBalance,
     counterparty |-> KwCounterparty, description |-> KwDescription]
\* the columns whose lowercase header contains keyword kw
ColumnsWith(kw) == {j \in 1..Len(df.columns) : Contains(Lower(df.columns[j]), kw)}
\* the columns whose lowercase header contains any keyword of the role
ColumnsOfRole(role) ==
    UNION {ColumnsWith(RoleKeywords[role][k]) : k \in 1..Len(RoleKeywords[role])}
\* the primary pass found the role in column j, or found nothing when j = 0
PrimaryIs(role, j) ==
    _infer_roles(df.columns)[role] = IF j = 0 THEN None ELSE Some(df.columns[j])
Leftmost(js) == IF js = {} THEN 0 ELSE CHOOSE j \in js : \A i \in js : j <= i
\* the columns of the earliest keyword of the role that some header contains
ColumnsOfFirstKeyword(role) ==
    LET kws == RoleKeywords[role]
        ks == {k \in 1..Len(kws) : ColumnsWith(kws[k]) # {}}
    IN  IF ks = {} THEN {} ELSE ColumnsWith(kws[Leftmost(ks)])
\* the frame of several columns has its headers and its role map
Mapped == pc = "extract" /\ ~SingleColumn

\* C14 as stated: in the primary pass each role resolves to the leftmost
\* column whose lowercase header contains any keyword of the role's list (the
\* column ordinal decides between columns that match different keywords of
\* one role), and is unresolved when no header matches.
C14_LeftmostOfAnyKeyword ==
    Mapped => \A role \in DOMAIN RoleKeywords : PrimaryIs(role, Leftmost(ColumnsOfRole(role)))
\* C14 (amended): in the primary pass each role resolves to the leftmost
\* column whose lowercase header contains the earliest keyword of the role's
\* list that any header contains: the order of the keywords decides between
\* columns that match different keywords, the column ordinal between columns
\* that match the same keyword; the role is unresolved when no header
\* matches, and a resolved role is kept by the content fallbacks.
C14_LeftmostOfFirstKeyword ==
    Mapped =>
        \A role \in DOMAIN RoleKeywords :
            /\ PrimaryIs(role, Leftmost(ColumnsOfFirstKeyword(role)))
            /\ ColumnsOfRole(role) # {} => colmap[role] = _infer_roles(df.columns)[role]
\* a frame where the leftmost column of the debit role matches the second
\* keyword and a column further right matches the first
C14_KeywordOrderDecides ==
    /\ Mapped
    /\ Leftmost(ColumnsOfRole("debit")) < Leftmost(ColumnsOfFirstKeyword("debit"))
    /\ colmap.debit = Some(df.columns[Leftmost(ColumnsOfFirstKeyword("debit"))])
    /\ ColumnsOfRole("counterparty") = {}


\* the frame built from the payload, before the header search
RawFrame == _to_dataframe(raw_data)
\* the frame has several columns and a row to take the headers from
Tabular == Len(RawFrame.columns) > 1 /\ Len(RawFrame.rows) > 0
\* the primary pass left the debit or the credit role unresolved
AmountFallbackRuns ==
    /\ Tabular
    /\ NeedAmounts(_infer_roles(HeaderNames(RawFrame, HeaderIdx(RawFrame.rows))))
\* the columns of the sample with a number-like cell
NumericColumns ==
    {j \in 1..Len(RawFrame.columns) :
        NumHits(DataRows(RawFrame, HeaderIdx(RawFrame.rows)), j) > 0}
\* _normalize_and_map_columns has ended, with a frame or with an exception
NormalizeEnded == pc \in {"extract", "raised"}

\* C15: when the primary pass leaves debit or credit unresolved, the
\* content-sampling fallback completes without error and resolves them from
\* the number-like columns; debit and credit are never the same column.
C15_AmountFallbackResolves ==
    (NormalizeEnded /\ AmountFallbackRuns) =>
        /\ pc = "extract"
        /\ NumericColumns # {} => ~IsNone(colmap.debit)
        /\ ~IsNone(colmap.debit) => colmap.debit # colmap.credit


\* the rows among the first 10 with at least two header keywords
KeywordRows ==
    {i \in 1..Len(RawFrame.rows) : i <= HeaderScanRows /\ HeaderHits(RawFrame.rows[i]) >= 2}
\* the topmost of them, or the first row of the frame
TopmostHeader == IF KeywordRows = {} THEN 1 ELSE Leftmost(KeywordRows)
\* C16: on a frame of several columns the header is the topmost row among the
\* first 10 rows with at least two header keywords, row 0 when no such row
\* exists; the data rows are exactly the rows after the header, in their
\* original order.
C16_HeaderRowAndDataRows ==
    Mapped =>
        /\ df.columns = HeaderNames(RawFrame, TopmostHeader)
        /\ Len(df.rows) = Len(RawFrame.rows) - TopmostHeader
        /\ \A i \in 1..Len(df.rows) : df.rows[i] = RawFrame.rows[TopmostHeader + i]
\* a frame with a title row above the header row and a data row below it
C16_HeaderBelowTitle ==
    /\ Mapped
    /\ TopmostHeader = 2
    /\ Len(df.rows) >= 1
    /\ df.rows[1] = RawFrame.rows[3]


\* the dates of the dated transactions
TxnDates == {Val(txns[i].date) : i \in (1..Len(txns)) \ Undated}
\* the last transaction in fold order that carries the date d
LastDated(d) == MaxOf({i \in 1..Len(txns) : txns[i].date = Some(d)})
\* the transactions the fold files under date.min: those without a date and
\* those dated 01.01.0001
UnderDateMin == {i \in 1..Len(txns) : IsNone(txns[i].date) \/ txns[i].date = Some(DateMin)}
\* the last transaction in fold order filed under the key d of the daily map
LastOf(d) == IF d = DateMin THEN MaxOf(UnderDateMin) ELSE LastDated(d)
\* the keys of the daily map: the transaction dates, and date.min when some
\* transaction has no date
DailyKeys == TxnDates \cup (IF Undated = {} THEN {} ELSE {DateMin})
\* the key transaction i is filed under
KeyAt(i) == IF IsNone(txns[i].date) THEN DateMin ELSE Val(txns[i].date)
\* the transactions that are the first of their key
FirstRows == {i \in 1..Len(txns) : \A j \in 1..(i - 1) : KeyAt(j) # KeyAt(i)}
\* the mean of the entries of the daily map, summed in the order of insertion
DailyAverage ==
    FDiv(InOrderSum([i \in FirstRows |-> balances.daily[KeyAt(i)]]),
         FromInt(Cardinality(FirstRows)))
\* every transaction, dated or not, moves the running value
EveryRowFolded ==
    \A i \in 1..Len(txns) : balances.running[i] = FoldStep(Before(i), txns[i])

LastDate(ds) == CHOOSE d \in ds : \A e \in ds : DateLeq(e, d)
\* the key of a dated day in the month map and in the week map
KeyOf(d, period) == IF period = "month" THEN MonthKey(d) ELSE WeekKey(d)
\* the period map m holds, for the key of every transaction date, the daily
\* balance of the last date with that key, and the balance of the undated
\* transactions under "unknown" alone
PeriodEnds(m, period) ==
    /\ DOMAIN m = {KeyOf(d, period) : d \in TxnDates}
                      \cup (IF Undated = {} THEN {} ELSE {UnknownKey})
    /\ \A d \in TxnDates :
          m[KeyOf(d, period)] =
              balances.daily[LastDate({e \in TxnDates : KeyOf(e, period) = KeyOf(d, period)})]
    /\ Undated # {} => m[UnknownKey] = balances.daily[DateMin]

\* C19: for every period key with a dated transaction, by_month_end and
\* by_week_end hold the daily balance of the chronologically last date of the
\* period; the balance of the undated transactions is under the key "unknown"
\* and under no key of a real period.
C19_PeriodEndIsLastDate ==
    Folded =>
        /\ PeriodEnds(balances.summary.by_month_end, "month")
        /\ PeriodEnds(balances.summary.by_week_end, "week")


\* the marker rows among the first 5 transactions of l
MarkedRows(l) ==
    {i \in 1..Len(l) : i <= OpeningScanRows /\ IsOpeningRow(l[i])}
\* the opening balance the rule gives on the list l
OpeningRule(l) ==
    IF MarkedRows(l) = {} THEN FZero
    ELSE IF ~IsNone(l[Leftmost(MarkedRows(l))].balance)
    THEN Val(l[Leftmost(MarkedRows(l))].balance)
    ELSE FSub(OrZero(l[Leftmost(MarkedRows(l))].debit),
              OrZero(l[Leftmost(MarkedRows(l))].credit))
\* C20: the opening balance comes from the first transaction among the first
\* 5, in sorted order, whose description has an opening marker: its declared
\* balance if present, else its debit - credit with nulls as 0; it is 0 when
\* none of the first 5 has the marker, a marker row at position 6 or later
\* being ignored.
C20_OpeningFromFirstFiveSorted ==
    Folded => FEq(balances.opening, OpeningRule(SortByDate(txns)))


\* _analyze_cashflow has run on the extracted list
Flowed == cashflow # Unset
\* the dated transactions of year-month m, by index
InMonth(m) == {i \in (1..Len(txns)) \ Undated : MonthKey(Val(txns[i].date)) = m}
\* the entry of a monthly map, 0 for a month without one
Entry(map, m) == IF m \in DOMAIN map THEN map[m] ELSE FZero
\* the monthly map holds the sums of the field over the dated transactions
MonthlySums(map, field) ==
    /\ DOMAIN map \subseteq {MonthKey(d) : d \in TxnDates}
    /\ \A d \in TxnDates : FEq(Entry(map, MonthKey(d)), SumAt(InMonth(MonthKey(d)), field))
\* the dated transactions that are the first of their year-month
MonthFirstRows ==
    {i \in (1..Len(txns)) \ Undated :
        \A j \in (1..(i - 1)) \ Undated :
            MonthKey(Val(txns[j].date)) # MonthKey(Val(txns[i].date))}
\* the entries of the monthly map add up to the total of the field minus its
\* sum over the transactions without a date
MonthsAddUp(map, field) ==
    FEq(InOrderSum([i \in MonthFirstRows |-> Entry(map, MonthKey(Val(txns[i].date)))]),
        FSub(SumAt(1..Len(txns), field), SumAt(Undated, field)))
\* the totals of the result are the sums over all transactions
CashflowTotals ==
    /\ FEq(cashflow.cash_in, SumAt(1..Len(txns), "debit"))
    /\ FEq(cashflow.cash_out, SumAt(1..Len(txns), "credit"))
    /\ FEq(cashflow.delta, FSub(cashflow.cash_in, cashflow.cash_out))
    /\ MonthlySums(cashflow.by_month_in, "debit")
    /\ MonthlySums(cashflow.by_month_out, "credit")

Ranked == counterparties # Unset
\* the transactions of counterparty name with an amount in the field
RowsOf(name, field) ==
    {i \in 1..Len(txns) : txns[i].counterparty = Some(name) /\ TruthyNum(txns[i][field])}
\* the counterparties with an amount in the field
NamesWith(field) ==
    {Val(txns[i].counterparty) :
        i \in {j \in 1..Len(txns) : TruthyStr(txns[j].counterparty) /\ TruthyNum(txns[j][field])}}
\* the float c is the sum of the first n shares of the ranking, in its order
IsShareSum(c, top, n) ==
    FEq(c, InOrderSum([i \in 1..Min2(n, Len(top)) |-> top[i].share]))
\* one ranking of the result: r over the amounts of the field, total the flow
Ranking(r, field, total) ==
    /\ Len(r.top) = Min2(TopK, Cardinality(NamesWith(field)))
    /\ \A i \in 1..Len(r.top) :
          /\ r.top[i].name \in NamesWith(field)
          /\ FEq(r.top[i].amount, SumAt(RowsOf(r.top[i].name, field), field))
          /\ FEq(r.top[i].share,
                 IF FIsZero(total) THEN FZero ELSE FDiv(r.top[i].amount, total))
          /\ \A j \in (i + 1)..Len(r.top) :
                r.top[i].name # r.top[j].name /\ ~FLess(r.top[i].amount, r.top[j].amount)
    /\ \A n \in NamesWith(field) :
          (\A i \in 1..Len(r.top) : r.top[i].name # n)
              => ~FLess(r.top[Len(r.top)].amount, SumAt(RowsOf(n, field), field))
    /\ IsShareSum(r.concentration.top1, r.top, 1)
    /\ IsShareSum(r.concentration.top3, r.top, 3)
    /\ IsShareSum(r.concentration.top5, r.top, 5)

\* C22: in the counterparty concentration a transaction without counterparty
\* adds to no counterparty's amount; the inflow and the outflow ranking list
\* at most 5 counterparties in descending order of their summed amount; a
\* share is the amount divided by the total flow, 0 when the total is 0; top1,
\* top3 and top5 are the sums of the first 1, 3 and 5 shares.
C22_RankingsAndShares ==
    Ranked =>
        /\ Ranking(counterparties.inflow, "debit", cashflow.cash_in)
        /\ Ranking(counterparties.outflow, "credit", cashflow.cash_out)
\* six counterparties with different inflows and an inflow without
\* counterparty: five are listed, and their shares add up to less than 1
C22_SixthCounterpartyCut ==
    /\ Ranked
    /\ Cardinality(NamesWith("debit")) = TopK + 1
    /\ Len(counterparties.inflow.top) = TopK
    /\ \E i \in 1..Len(txns) : IsNone(txns[i].counterparty) /\ TruthyNum(txns[i].debit)
    /\ FLess(counterparties.inflow.top[TopK].amount, counterparties.inflow.top[1].amount)
    /\ FLess(counterparties.inflow.concentration.top5, FromInt(1))
    /\ FLess(counterparties.inflow.concentration.top3, counterparties.inflow.concentration.top5)


\* C24: in the role map of a frame of several columns no column has more
\* than one role: any two resolved roles among date, debit, credit, balance,
\* counterparty and description are different columns; the balance role is
\* never the date column, the debit column or the credit column.
C24_RolesOnDistinctColumns ==
    Mapped =>
        \A r1, r2 \in DOMAIN RoleKeywords :
            (r1 # r2 /\ ~IsNone(colmap[r1]) /\ ~IsNone(colmap[r2]))
                => colmap[r1] # colmap[r2]


\* transaction i has no amount and no declared balance
NoAmount(i) ==
    ~TruthyNum(txns[i].debit) /\ ~TruthyNum(txns[i].credit) /\ IsNone(txns[i].balance)
\* C25: when the opening-balance row declares no balance, its debit - credit
\* is counted once in the running balance: after the fold has processed that
\* row, and no other row with amounts, the running value equals the opening
\* balance.
C25_OpeningCountedOnce ==
    (Folded /\ MarkedRows(txns) # {}) =>
        ((/\ IsNone(txns[Leftmost(MarkedRows(txns))].balance)
          /\ \A j \in 1..(Leftmost(MarkedRows(txns)) - 1) : NoAmount(j))
            => FEq(balances.running[Leftmost(MarkedRows(txns))], balances.opening))


\* C26: for every retries value, 0 and the negative ones included,
\* ErrorHandler.run returns the result of the wrapped function or the
\* configured default and no other value: with a default that is not None
\* it returns None only if the function returned None.
C26_ResultOrDefault ==
    pc = "done" => ret.kind \in {"result", "default"}


(***************************************************************************)
(* run_pipeline.  A value is followed by its shape: "full" is a dict with  *)
(* the keys its producer writes, "empty" is {} and "none" is None.  Every  *)
(* parser, analyzer, plot and export call is wrapped by safe_run and never *)
(* raises; the subscripts and .get chains that run_pipeline evaluates for  *)
(* the arguments are not wrapped.                                          *)
(***************************************************************************)
DocTypes == {"OPU", "BALANCE", "CARD51", "OSV60", "OSV62", "KP"}
\* the key of results a document's parse is stored under
ResultKey ==
    [OPU |-> "opu", BALANCE |-> "balance_raw", CARD51 |-> "card51",
     OSV60 |-> "osv60", OSV62 |-> "osv62", KP |-> "kp"]
\* the default of the safe_run wrapper of each parser: None where none is given
ParserDefault ==
    [OPU |-> "none", BALANCE |-> "none", CARD51 |-> "empty",
     OSV60 |-> "empty", OSV62 |-> "empty", KP |-> "empty"]

Has(r, k) == k \in DOMAIN r
Put(r, k, v) == [x \in DOMAIN r \cup {k} |-> IF x = k THEN v ELSE r[x]]
PutIf(cond, r, k, v) == IF cond THEN Put(r, k, v) ELSE r
\* d[k] for a key the producer writes: KeyError on {}, TypeError on None
Subscriptable(v) == v = "full"
\* d.get(k, {}): AttributeError on None
Gettable(v) == v # "none"
\* a wrapped analyzer that reads the listed values with .get: None makes its
\* body raise on every attempt, and the wrapper returns its default, None
Reads(args) == IF "none" \in args THEN "none" ELSE "full"
\* the values of results under the listed keys, for the keys present
ValuesAt(r, keys) == {r[k] : k \in keys \cap DOMAIN r}

\* the input directory holds, of each type, no document, a document the
\* parser returns a result for, or one it exhausts its retries on
\* "pdf", "md", "txt": report.pdf, report.md and report.txt by their extension
FPdf == <<112, 100, 102>>
FMd == <<109, 100>>
FTxt == <<116, 120, 116>>
ReportKeys == {FPdf, FMd, FTxt}

\* a call run_pipeline(): the documents of the input directory, the exports
\* that will not fail inside their wrappers, and whether sys.stdout can
\* encode the Cyrillic text of the last message
InitPipeline ==
    /\ IdleParser
    /\ IdleUnique
    /\ IdleScoring
    /\ IdleApp
    /\ IdleWatchdog
    /\ pl_docs \in [DocTypes -> {"absent", "parsed", "exhausted"}]
    /\ pl_results = <<>>
    /\ pl_report = Unset
    /\ pl_pc = "load"
    /\ pl_env \in [exports : SUBSET ReportKeys, stdout : {"utf-8", "ascii"}]
    /\ pl_files = {}

\* for f in files: results[key] = parser.parse(raw)
LoadDocuments ==
    /\ pl_pc = "load"
    /\ pl_results' =
           [k \in {ResultKey[t] : t \in {u \in DocTypes : pl_docs[u] # "absent"}} |->
               LET t == CHOOSE u \in DocTypes : ResultKey[u] = k
               IN  IF pl_docs[t] = "parsed" THEN "full" ELSE ParserDefault[t]]
    /\ pl_pc' = "analyze"
    /\ UNCHANGED <<pl_docs, pl_report>>
    /\ UNCHANGED <<pl_env, pl_files>>
    /\ UNCHANGED <<parser, unique, scoring, app, watchdog>>

\* the analyses of results r, each under the condition of run_pipeline
Analyses(r) ==
    PutIf(Has(r, "card51") /\ Has(r, "kp"),
          PutIf(Has(r, "kp") /\ Has(r, "opu") /\ Has(r, "balance_raw") /\ Has(r, "card51"),
                PutIf(Has(r, "osv60"),
                      PutIf(Has(r, "osv62"),
                            PutIf(Has(r, "card51"),
                                  PutIf(Has(r, "opu") /\ Has(r, "balance_raw"),
                                        PutIf(Has(r, "opu") /\ Has(r, "balance_raw"), r,
                                              "financials", Reads(ValuesAt(r, {"opu", "balance_raw"}))),
                                        "balance", Reads(ValuesAt(r, {"balance_raw"}))),
                                  "cashflow", Reads(ValuesAt(r, {"card51"}))),
                            "receivables", Reads(ValuesAt(r, {"osv62"}))),
                      "payables", Reads(ValuesAt(r, {"osv60"}))),
                "deal", Reads(ValuesAt(r, {"kp", "opu", "card51"}))),
          "retro", Reads(ValuesAt(r, {"card51", "kp"})))

\* the analysis stage; results.get("kp", {}).get("metrics", {}) is evaluated
\* by run_pipeline itself
Analyze ==
    /\ pl_pc = "analyze"
    /\ IF Has(pl_results, "card51") /\ Has(pl_results, "kp") /\ ~Gettable(pl_results["kp"])
       THEN pl_pc' = "raised" /\ UNCHANGED pl_results
       ELSE pl_pc' = "score" /\ pl_results' = Analyses(pl_results)
    /\ UNCHANGED <<pl_docs, pl_report>>
    /\ UNCHANGED <<pl_env, pl_files>>
    /\ UNCHANGED <<parser, unique, scoring, app, watchdog>>

\* results["scoring"] = scoring.score(results)
ScoreResults ==
    /\ pl_pc = "score"
    /\ pl_results' =
           Put(pl_results, "scoring",
               Reads(ValuesAt(pl_results, {"financials", "balance", "cashflow",
                                           "receivables", "payables", "retro"})))
    /\ pl_pc' = "report"
    /\ UNCHANGED <<pl_docs, pl_report>>
    /\ UNCHANGED <<pl_env, pl_files>>
    /\ UNCHANGED <<parser, unique, scoring, app, watchdog>>

\* md_report = formatter.format_report(results)
FormatReport ==
    /\ pl_pc = "report"
    /\ pl_report' =
           Some(Reads(ValuesAt(pl_results, {"deal", "financials", "balance", "cashflow",
                                            "receivables", "payables", "retro", "scoring"})))
    /\ pl_pc' = "images"
    /\ UNCHANGED <<pl_docs, pl_results>>
    /\ UNCHANGED <<pl_env, pl_files>>
    /\ UNCHANGED <<parser, unique, scoring, app, watchdog>>

\* the keys of results whose value the image stage subscripts
Subscripted(r) ==
    (IF Has(r, "cashflow") THEN {"cashflow"} ELSE {})
        \cup ({"receivables", "payables", "card51"} \cap DOMAIN r)

\* the image stage: an argument expression that fails raises out of
\* run_pipeline
PlotImages ==
    /\ pl_pc = "images"
    /\ pl_pc' = IF \/ \E k \in Subscripted(pl_results) : ~Subscriptable(pl_results[k])
                   \/ Has(pl_results, "cashflow") /\ Has(pl_results, "kp")
                        /\ ~Gettable(pl_results["kp"])
                THEN "raised" ELSE "export"
    /\ UNCHANGED <<pl_docs, pl_results, pl_report>>
    /\ UNCHANGED <<pl_env, pl_files>>
    /\ UNCHANGED <<parser, unique, scoring, app, watchdog>>

\* export_markdown, export_pdf, export_txt, each writing its file unless it
\* fails inside its wrapper, and the final messages: print raises
\* UnicodeEncodeError when sys.stdout cannot encode the text
Export ==
    /\ pl_pc = "export"
    /\ pl_files' = pl_files \cup pl_env.exports
    /\ pl_pc' = IF pl_env.stdout = "utf-8" THEN "done" ELSE "raised"
    /\ UNCHANGED <<pl_docs, pl_results, pl_report, pl_env>>
    /\ UNCHANGED <<parser, unique, scoring, app, watchdog>>

NextPipeline == LoadDocuments \/ Analyze \/ ScoreResults \/ FormatReport \/ PlotImages \/ Export
SpecPipeline == InitPipeline /\ [][NextPipeline]_vars

\* the parser of some document returned the default of its wrapper
SomeDefault == \E t \in DocTypes : pl_docs[t] = "exhausted"
\* C28: when a parser exhausts its retries and its result is replaced by the
\* default of the wrapper, run_pipeline still runs to completion without
\* raising: the analysis, chart and export steps accept the default value
\* (on a stdout that can encode the last message).
C28_DefaultAccepted ==
    (pl_pc # "idle" /\ SomeDefault /\ pl_env.stdout = "utf-8") => pl_pc # "raised"


(***************************************************************************)
(* app.py: the handlers upload_doc, run_pd, download_report and health.    *)
(* The first three are the wrapper of safe_run(retries=1) around the       *)
(* function body, so the body runs as func inside ErrorHandler.run; the    *)
(* route calls the wrapper.  Requests are served one after another.        *)
(***************************************************************************)
\* safe_run(stage=..., retries=1) of the handlers
AppRetries == 1
\* "pdf", "md", "txt": the keys of mapping
MappingKeys == {FPdf, FMd, FTxt}
\* the path parameters of the requests: the keys, "PDF" and "xml"
Formats == MappingKeys \cup {<<80, 68, 70>>, <<120, 109, 108>>}
Requests ==
    {[endpoint |-> "download_report", format |-> f] : f \in Formats}
        \cup {[endpoint |-> e, format |-> <<>>] : e \in {"upload_doc", "run_pd", "health"}}
\* what run_pipeline() does on the documents of input/: it completes, or it
\* raises, before the exports (no file) or in the print after them; the
\* exports that do not fail inside their own wrappers write report.<key>
PipelineRuns == [outcome : {"raises", "completes"}, exports : SUBSET MappingKeys]

\* not path or not os.path.exists(path), for path = mapping.get(format.lower())
NotFound(format) == Lower(format) \notin MappingKeys \/ Lower(format) \notin ap_files

\* a request arrives; for a wrapped handler the wrapper builds
\* ErrorHandler(retries=1) and calls run with the default of its closure,
\* None: the decorators of app.py pass no default
InitApp ==
    /\ history = <<>>
    /\ default = None
    /\ raw_data = Unset
    /\ monthly_payment = FZero
    /\ retries = AppRetries
    /\ base_delay = ParseBaseDelay
    /\ backoff = ParseBackoff
    /\ InitHandler
    /\ InitLocals
    /\ IdleUnique
    /\ IdleScoring
    /\ IdlePipeline
    /\ IdleWatchdog
    /\ ap_request \in Requests
    /\ ap_files \in SUBSET MappingKeys
    /\ ap_pipeline \in PipelineRuns
    /\ ap_exc = Unset

\* the handler of the request is decorated with safe_run
Wrapped == ap_request.endpoint # "health"

\* the call of the wrapper of upload_doc: func is a coroutine function, so
\* func(file) only makes the coroutine object and the body does not run
upload_doc ==
    /\ pc = "call"
    /\ ap_request.endpoint = "upload_doc"
    /\ pc' = "returned"
    /\ fret' = [coroutine |-> "upload_doc"]
    /\ UNCHANGED app
    /\ UNCHANGED <<history, default, raw_data, monthly_payment>>
    /\ UNCHANGED locals
    /\ UNCHANGED handler
    /\ UNCHANGED <<unique, scoring, pipeline, watchdog>>

\* the body of download_report: raise HTTPException(404) or return the
\* FileResponse of the path, named report.<format>
DownloadReport ==
    /\ pc = "call"
    /\ ap_request.endpoint = "download_report"
    /\ IF NotFound(ap_request.format)
       THEN /\ ap_exc' = Some(404)
            /\ pc' = "raised"
            /\ fret' = fret
       ELSE /\ ap_exc' = ap_exc
            /\ pc' = "returned"
            /\ fret' = [path |-> Lower(ap_request.format), filename |-> ap_request.format]
    /\ UNCHANGED <<ap_request, ap_files, ap_pipeline>>
    /\ UNCHANGED <<history, default, raw_data, monthly_payment>>
    /\ UNCHANGED locals
    /\ UNCHANGED handler
    /\ UNCHANGED <<unique, scoring, pipeline, watchdog>>

\* the body of run_pd enters the try and calls run_pipeline()
RunPdCall ==
    /\ pc = "call"
    /\ ap_request.endpoint = "run_pd"
    /\ pc' = "pipeline"
    /\ UNCHANGED app
    /\ UNCHANGED <<history, default, raw_data, monthly_payment, fret>>
    /\ UNCHANGED locals
    /\ UNCHANGED handler
    /\ UNCHANGED <<unique, scoring, pipeline, watchdog>>

\* run_pipeline() ends, its reports written: it has raised and the except of
\* run_pd raises HTTPException(500), or it has returned and so does run_pd
RunPd ==
    /\ pc = "pipeline"
    /\ IF ap_pipeline.outcome = "raises"
       THEN /\ ap_exc' = Some(500)
            /\ pc' = "raised"
            /\ fret' = fret
       ELSE /\ ap_exc' = ap_exc
            /\ pc' = "returned"
            /\ fret' = [status |-> "ok",
                        report_pdf |-> "/download/report/pdf",
                        report_md |-> "/download/report/md",
                        report_txt |-> "/download/report/txt"]
    /\ ap_files' = ap_files \cup ap_pipeline.exports
    /\ UNCHANGED <<ap_request, ap_pipeline>>
    /\ UNCHANGED <<history, default, raw_data, monthly_payment>>
    /\ UNCHANGED locals
    /\ UNCHANGED handler
    /\ UNCHANGED <<unique, scoring, pipeline, watchdog>>

\* health(): the route calls the function itself, which returns the JSONResponse
health ==
    /\ pc = "loop"
    /\ ap_request.endpoint = "health"
    /\ pc' = "done"
    /\ ret' = [kind |-> "result", val |-> [status |-> "running"]]
    /\ UNCHANGED app
    /\ UNCHANGED <<history, default, raw_data, monthly_payment, fret>>
    /\ UNCHANGED <<retries, base_delay, backoff, attempt, delay, slept, outcomes>>
    /\ UNCHANGED locals
    /\ UNCHANGED <<unique, scoring, pipeline, watchdog>>

\* the response is sent and the next request arrives; the report files stay
NextRequest ==
    /\ pc = "done"
    /\ ap_request' \in Requests
    /\ ap_pipeline' \in PipelineRuns
    /\ ap_exc' = Unset
    /\ ap_files' = ap_files
    /\ attempt' = 0
    /\ delay' = base_delay
    /\ slept' = <<>>
    /\ outcomes' = <<>>
    /\ fret' = Unset
    /\ ret' = NotReturned
    /\ pc' = "loop"
    /\ UNCHANGED <<history, default, raw_data, monthly_payment, retries, base_delay, backoff>>
    /\ UNCHANGED locals
    /\ UNCHANGED <<unique, scoring, pipeline, watchdog>>

NextApp ==
    \/ Wrapped /\ RunLoop
    \/ upload_doc
    \/ DownloadReport
    \/ RunPdCall
    \/ RunPd
    \/ RunReturn
    \/ RunExcept
    \/ health
    \/ NextRequest
SpecApp == InitApp /\ [][NextApp]_vars

\* the wrapper has ended for a download of an unknown format or of a report
\* that does not exist
DownloadMissing ==
    /\ pc = "done"
    /\ ap_request.endpoint = "download_report"
    /\ NotFound(ap_request.format)
\* the wrapper has ended for run_pd and the pipeline raised
PipelineFailed ==
    /\ pc = "done"
    /\ ap_request.endpoint = "run_pd"
    /\ ap_pipeline.outcome = "raises"
\* C29: a download_report request for an unknown format or for a report file
\* that does not exist ends in the HTTPException 404 leaving the wrapper, and
\* a run_pd request whose pipeline fails in the HTTPException 500: the
\* wrapper of safe_run does not turn the exception into a returned value.
C29_HttpErrorReachesClient ==
    (DownloadMissing \/ PipelineFailed) => ret.kind = "exception"


(***************************************************************************)
(* Watchdog.  A task is the dict register_task stores under its name; a    *)
(* runner thread keeps the dict it was started for.  The steps are the     *)
(* stretches of code between two points where another thread can act: the  *)
(* lock is held for a whole `with` block of register_task and heartbeat,   *)
(* and over one pass of _loop.  The clock counts in units of the timeout.  *)
(* The progress fields only feed the log messages and are left out.        *)
(***************************************************************************)
MaxTime == 3
MaxThreads == 2
\* Watchdog.timeout, one unit of the clock
Timeout == 1
\* the names tasks are registered under
TaskNames == {"a", "b"}

\* threading.Thread(target=runner): a started thread, about to test the
\* loop condition, for the dict dictid of the task name
Runner(name, dictid) == [name |-> name, task |-> dictid, pc |-> "loop"]

\* _start_task(name): a new runner thread for the dict now under name; the
\* dict remembers it as its thread
_start_task(tasks, threads, name) ==
    <<[tasks EXCEPT ![name].thread = Some(Len(threads) + 1)],
      Append(threads, Runner(name, tasks[name].id))>>

\* _restart_task(name): the old thread is left alone, a new one is started
_restart_task(tasks, threads, name) == _start_task(tasks, threads, name)

\* the two checks of _loop for one task: no heartbeat for longer than the
\* timeout, or started longer than the timeout ago
TimedOut(task, now) ==
    \/ now - task.last_heartbeat > Timeout
    \/ /\ ~IsNone(task.last_start)
       /\ Val(task.last_start) # 0
       /\ now - Val(task.last_start) > Timeout

\* list(self._tasks.items()): the names in the order of their first registration
Items(tasks) ==
    [k \in 1..Cardinality(DOMAIN tasks) |-> CHOOSE n \in DOMAIN tasks : tasks[n].pos = k]

\* the monitor thread between two passes, about to test the stop event
MonitorIdle == [pc |-> "test", now |-> 0, items |-> <<>>]
\* self._lock is held by the monitor thread
Locked == wd_mon.pc = "pass"

\* Watchdog(): no task, the monitor thread started
InitWatchdog ==
    /\ IdleParser
    /\ IdleUnique
    /\ IdleScoring
    /\ IdlePipeline
    /\ IdleApp
    /\ wd_tasks = <<>>
    /\ wd_threads = <<>>
    /\ wd_clock = 1
    /\ wd_stop = FALSE
    /\ wd_mon = MonitorIdle
    /\ wd_calls = <<>>
    /\ wd_dicts = 0

\* register_task(name, func) up to the release of the lock: a new dict is
\* stored under name
RegisterStore(name) ==
    /\ ~Locked
    /\ Len(wd_threads) + Len(wd_calls) < MaxThreads
    /\ wd_tasks' =
           Put(wd_tasks, name,
               [id |-> wd_dicts + 1,
                pos |-> IF name \in DOMAIN wd_tasks THEN wd_tasks[name].pos
                        ELSE Cardinality(DOMAIN wd_tasks) + 1,
                last_heartbeat |-> wd_clock,
                last_start |-> None,
                thread |-> None])
    /\ wd_dicts' = wd_dicts + 1
    /\ wd_calls' = Append(wd_calls, name)
    /\ UNCHANGED <<wd_threads, wd_clock, wd_stop, wd_mon>>
    /\ UNCHANGED <<parser, unique, scoring, pipeline, app>>

\* the rest of the k-th pending call of register_task: _start_task(name),
\* for the dict that is under the name by now
RegisterStart(k) ==
    /\ k \in 1..Len(wd_calls)
    /\ \E r \in {_start_task(wd_tasks, wd_threads, wd_calls[k])} :
           /\ wd_tasks' = r[1]
           /\ wd_threads' = r[2]
    /\ wd_calls' = SubSeq(wd_calls, 1, k - 1) \o SubSeq(wd_calls, k + 1, Len(wd_calls))
    /\ UNCHANGED <<wd_clock, wd_stop, wd_mon, wd_dicts>>
    /\ UNCHANGED <<parser, unique, scoring, pipeline, app>>

\* heartbeat(name) for a registered name
heartbeat(name) ==
    /\ ~Locked
    /\ name \in DOMAIN wd_tasks
    /\ wd_tasks[name].last_heartbeat # wd_clock
    /\ wd_tasks' = [wd_tasks EXCEPT ![name].last_heartbeat = wd_clock]
    /\ UNCHANGED <<wd_threads, wd_clock, wd_stop, wd_mon, wd_calls, wd_dicts>>
    /\ UNCHANGED <<parser, unique, scoring, pipeline, app>>

\* stop(): the event is set; the join only makes the caller wait
stop ==
    /\ ~wd_stop
    /\ wd_stop' = TRUE
    /\ UNCHANGED <<wd_tasks, wd_threads, wd_clock, wd_mon, wd_calls, wd_dicts>>
    /\ UNCHANGED <<parser, unique, scoring, pipeline, app>>

\* _loop tests the stop event and reads the clock
LoopTest ==
    /\ wd_mon.pc = "test"
    /\ wd_mon' = IF wd_stop THEN [MonitorIdle EXCEPT !.pc = "ended"]
                 ELSE [pc |-> "lock", now |-> wd_clock, items |-> <<>>]
    /\ UNCHANGED <<wd_tasks, wd_threads, wd_clock, wd_stop, wd_calls, wd_dicts>>
    /\ UNCHANGED <<parser, unique, scoring, pipeline, app>>

\* _loop takes the lock and lists the tasks
LoopLock ==
    /\ wd_mon.pc = "lock"
    /\ wd_mon' = IF wd_tasks = <<>> THEN [MonitorIdle EXCEPT !.pc = "sleep"]
                 ELSE [wd_mon EXCEPT !.pc = "pass", !.items = Items(wd_tasks)]
    /\ UNCHANGED <<wd_tasks, wd_threads, wd_clock, wd_stop, wd_calls, wd_dicts>>
    /\ UNCHANGED <<parser, unique, scoring, pipeline, app>>

\* the body of the for loop of _loop for the next listed task, under the
\* lock; after the last task the lock is released
LoopTask ==
    /\ wd_mon.pc = "pass"
    /\ IF TimedOut(wd_tasks[Head(wd_mon.items)], wd_mon.now)
       THEN /\ Len(wd_threads) + Len(wd_calls) < MaxThreads
            /\ \E r \in {_restart_task(wd_tasks, wd_threads, Head(wd_mon.items))} :
                   /\ wd_tasks' = r[1]
                   /\ wd_threads' = r[2]
       ELSE UNCHANGED <<wd_tasks, wd_threads>>
    /\ wd_mon' = IF Len(wd_mon.items) = 1 THEN [MonitorIdle EXCEPT !.pc = "sleep"]
                 ELSE [wd_mon EXCEPT !.items = Tail(@)]
    /\ UNCHANGED <<wd_clock, wd_stop, wd_calls, wd_dicts>>
    /\ UNCHANGED <<parser, unique, scoring, pipeline, app>>

\* time.sleep(check_interval) of _loop ends
LoopSleep ==
    /\ wd_mon.pc = "sleep"
    /\ wd_mon' = MonitorIdle
    /\ UNCHANGED <<wd_tasks, wd_threads, wd_clock, wd_stop, wd_calls, wd_dicts>>
    /\ UNCHANGED <<parser, unique, scoring, pipeline, app>>

\* runner i tests the loop condition and ends when the stop event is set
RunnerTest(i) ==
    /\ wd_threads[i].pc = "loop"
    /\ wd_threads' = [wd_threads EXCEPT ![i].pc = IF wd_stop THEN "ended" ELSE "start"]
    /\ UNCHANGED <<wd_tasks, wd_clock, wd_stop, wd_mon, wd_calls, wd_dicts>>
    /\ UNCHANGED <<parser, unique, scoring, pipeline, app>>

\* runner i writes last_start into its dict, which is the dict under the
\* name unless the name was registered again, and calls handler.run(func)
RunnerStart(i) ==
    /\ wd_threads[i].pc = "start"
    /\ wd_threads' = [wd_threads EXCEPT ![i].pc = "run"]
    /\ wd_tasks' =
           IF wd_tasks[wd_threads[i].name].id = wd_threads[i].task
           THEN [wd_tasks EXCEPT ![wd_threads[i].name].last_start = Some(wd_clock)]
           ELSE wd_tasks
    /\ UNCHANGED <<wd_clock, wd_stop, wd_mon, wd_calls, wd_dicts>>
    /\ UNCHANGED <<parser, unique, scoring, pipeline, app>>

\* handler.run(func) of runner i returns; the runner goes to sleep
RunnerEnd(i) ==
    /\ wd_threads[i].pc = "run"
    /\ wd_threads' = [wd_threads EXCEPT ![i].pc = "sleep"]
    /\ UNCHANGED <<wd_tasks, wd_clock, wd_stop, wd_mon, wd_calls, wd_dicts>>
    /\ UNCHANGED <<parser, unique, scoring, pipeline, app>>

\* time.sleep(1) of runner i ends
RunnerWake(i) ==
    /\ wd_threads[i].pc = "sleep"
    /\ wd_threads' = [wd_threads EXCEPT ![i].pc = "loop"]
    /\ UNCHANGED <<wd_tasks, wd_clock, wd_stop, wd_mon, wd_calls, wd_dicts>>
    /\ UNCHANGED <<parser, unique, scoring, pipeline, app>>

\* time passes
Tick ==
    /\ wd_clock < MaxTime
    /\ wd_clock' = wd_clock + 1
    /\ UNCHANGED <<wd_tasks, wd_threads, wd_stop, wd_mon, wd_calls, wd_dicts>>
    /\ UNCHANGED <<parser, unique, scoring, pipeline, app>>

NextWatchdog ==
    \/ \E n \in TaskNames : RegisterStore(n)
    \/ \E k \in 1..Len(wd_calls) : RegisterStart(k)
    \/ \E n \in TaskNames : heartbeat(n)
    \/ stop
    \/ LoopTest
    \/ LoopLock
    \/ LoopTask
    \/ LoopSleep
    \/ \E i \in 1..Len(wd_threads) : RunnerTest(i)
    \/ \E i \in 1..Len(wd_threads) : RunnerStart(i)
    \/ \E i \in 1..Len(wd_threads) : RunnerEnd(i)
    \/ \E i \in 1..Len(wd_threads) : RunnerWake(i)
    \/ Tick
SpecWatchdog == InitWatchdog /\ [][NextWatchdog]_vars

\* the runner threads of the task name that are inside handler.run(func)
Executing(name) ==
    {i \in 1..Len(wd_threads) : wd_threads[i].name = name /\ wd_threads[i].pc = "run"}
\* C30: at most one runner thread per registered task name is executing the
\* task function at any time, under every interleaving of register_task,
\* heartbeat, the timeouts of the monitor loop and _restart_task.
C30_OneRunnerPerTask ==
    \A n \in TaskNames : Cardinality(Executing(n)) <= 1

=============================================================================
